---- MODULE Spec2Model ----
(***************************************************************************)
(* Verification model of terraform-provider-multipass: the multipasscli    *)
(* client (executor, read-through cache, mutations) and the reconciliation *)
(* handlers of the provider's resources.                                   *)
(***************************************************************************)
EXTENDS Integers, Sequences, FiniteSets, TLC

(***************************************************************************)
(* Bounds and program constants                                            *)
(***************************************************************************)
\* cacheTTL = 3 * time.Second; the clock of the model counts seconds.
cacheTTL == 3
\* The clock stops at MaxTime.
MaxTime == 3
\* The external tool's list payload of a kind changes at most MaxVer times.
MaxVer == 2
\* Callers sharing one client.
Callers == {1, 2}
NoCaller == 0

\* One cache slot per kind: the four cacheEntry pointers of the client struct.
Kinds == {"instanceCache", "imageCache", "networkCache", "aliasCache"}

\* A nil *cacheEntry.
NoEntry == [nil |-> TRUE]

(***************************************************************************)
(* Errors                                                                  *)
(***************************************************************************)
\* The error values the client produces.  ErrNotFound is the sentinel
\* itself; WrappedNotFound is fmt.Errorf("%w: %s", ErrNotFound, stderr).
NilErr == "nil"
ErrNotFound == "ErrNotFound"
WrappedNotFound == "wrapped(ErrNotFound)"
TimeoutErr == "timed out"
CLIError == "CLIError"
ParseErr == "unable to parse multipass JSON output"
MissingErr == "missing from info payload"
ValidationErr == "validation"

\* errors.Is(err, ErrNotFound): true of the sentinel and of what wraps it.
errorsIsNotFound(err) ==
    /\ err # NilErr
    /\ err \in {ErrNotFound, WrappedNotFound}

(***************************************************************************)
(* Command executor                                                        *)
(***************************************************************************)
\* strings.Contains over a text kept as a sequence of words.
Contains(s, pat) ==
    \E i \in 1 .. (Len(s) - Len(pat) + 1) : SubSeq(s, i, i + Len(pat) - 1) = pat

\* What the external process can write to stderr.
Stderrs ==
    { <<>>,
      <<"instance", "does", "not", "exist">>,
      <<"alias", "does", "not", "exist">>,
      <<"snapshot", "not", "found">>,
      <<"command", "failed">> }

\* Outcomes of cmd.Run(): exit zero, or a failure with or without the
\* deadline of the context exceeded, and the captured stderr.
ProcResults ==
    { [ok |-> TRUE, deadline |-> FALSE, stderr |-> <<>>] } \cup
    { [ok |-> FALSE, deadline |-> d, stderr |-> s] : d \in BOOLEAN, s \in Stderrs }

\* A run that looks at stderr before it looks at the deadline.
runStderrFirst(res) ==
    IF res.ok THEN NilErr
    ELSE IF \/ Contains(res.stderr, <<"does", "not", "exist">>)
            \/ Contains(res.stderr, <<"not", "found">>)
         THEN WrappedNotFound
         ELSE IF res.deadline THEN TimeoutErr ELSE CLIError

\* client.run: the error returned for a process outcome.
run(res) ==
    IF res.ok THEN NilErr
    ELSE IF res.deadline THEN TimeoutErr
    ELSE IF \/ Contains(res.stderr, <<"does", "not", "exist">>)
            \/ Contains(res.stderr, <<"not", "found">>)
         THEN WrappedNotFound
         ELSE CLIError

\* strings.TrimSpace over a text kept as a sequence of words, in which " "
\* stands for white space.
TrimSpace(s) ==
    LET inked == {i \in 1 .. Len(s) : s[i] # " "}
    IN IF inked = {} THEN <<>>
       ELSE SubSeq(s, CHOOSE i \in inked : \A j \in inked : i <= j,
                      CHOOSE i \in inked : \A j \in inked : j <= i)

\* strings.Join(args, " ")
JoinArgs(args) ==
    [i \in 1 .. (IF Len(args) = 0 THEN 0 ELSE 2 * Len(args) - 1) |->
        IF i % 2 = 1 THEN args[(i + 1) \div 2] ELSE " "]

\* No output and no CLIError fields.
NoBytes == <<"nil">>
NoDetail == [Command |-> <<>>, Stdout |-> <<>>, Stderr |-> <<>>, Err |-> NilErr]

\* client.run(ctx, args...) for a process that ran as proc says: whether
\* cmd.Run returned nil, the error of the context afterwards, the captured
\* stdout and stderr and the error of cmd.Run.  The result is the output,
\* the error and, for a CLIError, its fields.
runCmd(args, proc) ==
    LET err == run([ok |-> proc.ok,
                    deadline |-> proc.ctxErr = "DeadlineExceeded",
                    stderr |-> TrimSpace(proc.stderr)])
    IN [out |-> IF err = NilErr THEN proc.stdout ELSE NoBytes,
        err |-> err,
        detail |-> IF err = CLIError
                   THEN [Command |-> JoinArgs(args),
                         Stdout |-> TrimSpace(proc.stdout),
                         Stderr |-> TrimSpace(proc.stderr),
                         Err |-> proc.runErr]
                   ELSE NoDetail]

\* client.runJSON: run, then json.Unmarshal of the output.
runJSON(res, wellFormed) ==
    IF run(res) # NilErr THEN run(res)
    ELSE IF ~wellFormed THEN ParseErr
    ELSE NilErr

(***************************************************************************)
(* Cache entries                                                            *)
(***************************************************************************)
\* A valid with the comparison turned around: expires.Before(now).
validTurned(c, t) == c # NoEntry /\ c.expires < t

\* cacheEntry.valid(now)
valid(c, t) == c # NoEntry /\ t < c.expires

\* A cache check that forgets the refresh flag.
servedFromCacheAlways(refresh, c, t) == valid(c, t)

\* The guard of the cached return of a list call:
\* !refresh && c.<kind>Cache.valid(time.Now())
servedFromCache(refresh, c, t) == ~refresh /\ valid(c, t)

\* newCacheEntry(value, ttl), with time.Now() = t
newCacheEntry(value, ttl, t) == [nil |-> FALSE, value |-> value, expires |-> t + ttl]


(***************************************************************************)
(* State                                                                   *)
(***************************************************************************)
VARIABLES
    scope,      \* the kinds the callers of this behaviour work with
    now,        \* time.Now(), in seconds
    mu,         \* client.mu: the caller holding it, or NoCaller
    cache,      \* the four cache slots of the client
    ext,        \* external tool: the list payload of each kind, as a version
    mutVer,     \* history: ext of a kind when its last mutation returned success
    storedBy,   \* history: the refresh flag of the call that stored each slot
    pc,         \* position of each caller inside its client call
    op,         \* the client call of each caller and its arguments
    payload,    \* the decoded payload a list call holds between query and store
    ret,        \* what the last call of each caller returned
    hist        \* history of the call in progress of each caller

VARIABLES
    vm,          \* external tool: power state of every instance name
    mounted,     \* external tool: the mounts of the managed instance
    aliasExt,    \* external tool: the managed alias exists
    snapshotExt, \* external tool: the managed snapshot exists
    tfInstance,  \* tracked state of the multipass_instance resource
    tfAlias,     \* the multipass_alias resource is in the tracked state
    tfSnapshot,  \* the multipass_snapshot resource is in the tracked state
    h,           \* the resource handler in progress
    diff,        \* diffMounts: its two input lists and its result
    aliasDef,    \* external tool: what the managed alias is defined as
    fx           \* a function of the provider applied to an input: both, and the result

resVars == <<vm, mounted, aliasExt, aliasDef, snapshotExt, tfInstance, tfAlias, tfSnapshot, h, diff, fx>>

cacheVars == <<scope, now, mu, cache, ext, mutVer, storedBy, pc, op, payload, ret, hist>>

\* No function is applied.
NoFx == [fn |-> "none", done |-> FALSE]

\* The alias does not exist.
NoAliasDef == [Instance |-> "", Command |-> "", WorkingDirectory |-> ""]

NoOp == [fn |-> "none", kind |-> "none", refresh |-> FALSE, args |-> <<>>, purge |-> FALSE]
NoRet == [err |-> NilErr, value |-> -1]
NoHist == [chkEntry |-> NoEntry, hit |-> FALSE, queried |-> FALSE, ran |-> 0, since |-> 0]

\* The slot a mutation invalidates.
KindOf(fn) ==
    IF fn \in {"LaunchInstance", "DeleteInstance"} THEN "instanceCache" ELSE "aliasCache"

\* cloneInstances / cloneImages / cloneNetworks / cloneAliases: a copy of the list.
clone(v) == v

\* No function of the client touches two slots, so a behaviour exercises the
\* slots of one scope; every kind is the scope of some behaviour.
Scopes == {{k} : k \in Kinds}

CacheInit ==
    /\ scope \in Scopes
    /\ now = 0
    /\ mu = NoCaller
    /\ cache = [k \in Kinds |-> NoEntry]
    /\ ext = [k \in Kinds |-> 0]
    /\ mutVer = [k \in Kinds |-> 0]
    /\ storedBy = [k \in Kinds |-> "none"]
    /\ pc = [p \in Callers |-> "idle"]
    /\ op = [p \in Callers |-> NoOp]
    /\ payload = [p \in Callers |-> -1]
    /\ ret = [p \in Callers |-> NoRet]
    /\ hist = [p \in Callers |-> NoHist]

Free(p) == pc[p] \in {"idle", "done"}

\* A Lock that does not wait for the holder.
lockFreeAlways(m) == TRUE

\* c.mu.Lock() returns when no caller holds the mutex.
lockFree(m) == m = NoCaller

\* Return from the call in progress.
Return(p, err, value) ==
    /\ pc' = [pc EXCEPT ![p] = "done"]
    /\ ret' = [ret EXCEPT ![p] = [err |-> err, value |-> value]]

(***************************************************************************)
(* List calls: ListInstances, ListImages, ListNetworks, ListAliases        *)
(***************************************************************************)
\* A caller enters List<kind>(ctx, refresh).
CallList(p) ==
    /\ Free(p)
    /\ \E k \in scope, r \in BOOLEAN :
          op' = [op EXCEPT ![p] = [fn |-> "List", kind |-> k, refresh |-> r,
                                   args |-> <<>>, purge |-> FALSE]]
    /\ pc' = [pc EXCEPT ![p] = "lock"]
    /\ hist' = [hist EXCEPT ![p] = [NoHist EXCEPT !.since = mutVer[op'[p].kind]]]
    /\ ret' = [ret EXCEPT ![p] = NoRet]
    /\ UNCHANGED <<scope, now, mu, cache, ext, mutVer, storedBy, payload>>
    /\ UNCHANGED resVars

\* c.mu.Lock() at the head of a list call.
ListLock(p) ==
    /\ pc[p] = "lock"
    /\ lockFree(mu)
    /\ mu' = p
    /\ pc' = [pc EXCEPT ![p] = "check"]
    /\ UNCHANGED <<scope, now, cache, ext, mutVer, storedBy, op, payload, ret, hist>>
    /\ UNCHANGED resVars

\* A list call that keeps the mutex while it queries.
unlockLater(p) == p

\* c.mu.Unlock() of a list call: deferred to the return on a hit, and before
\* the query on a miss.
unlock(p) == NoCaller

\* if !refresh && cache.valid(time.Now()) { defer Unlock; return clone(value) }
\* c.mu.Unlock()
ListCheck(p) ==
    /\ pc[p] = "check"
    /\ mu = p
    /\ LET k == op[p].kind IN
         /\ hist' = [hist EXCEPT ![p].chkEntry = cache[k],
                                 ![p].hit = (cache[k] # NoEntry /\ now < cache[k].expires)]
         /\ IF servedFromCache(op[p].refresh, cache[k], now)
            THEN Return(p, NilErr, clone(cache[k].value))
            ELSE /\ pc' = [pc EXCEPT ![p] = "query"]
                 /\ UNCHANGED ret
    /\ mu' = unlock(p)
    /\ UNCHANGED <<scope, now, cache, ext, mutVer, storedBy, op, payload>>
    /\ UNCHANGED resVars

\* c.runJSON(ctx, &payload, "list" | "find" | "networks" | "aliases"), then
\* payload.toModel()
ListQuery(p) ==
    /\ pc[p] = "query"
    /\ \E res \in ProcResults, wellFormed \in BOOLEAN :
         LET err == runJSON(res, wellFormed) IN
           IF err # NilErr
           THEN /\ Return(p, err, -1)
                /\ UNCHANGED payload
           ELSE /\ payload' = [payload EXCEPT ![p] = ext[op[p].kind]]
                /\ pc' = [pc EXCEPT ![p] = "storelock"]
                /\ UNCHANGED ret
    /\ hist' = [hist EXCEPT ![p].queried = TRUE, ![p].ran = @ + 1]
    /\ UNCHANGED <<scope, now, mu, cache, ext, mutVer, storedBy, op>>
    /\ UNCHANGED resVars

\* c.mu.Lock() before the store.
ListStoreLock(p) ==
    /\ pc[p] = "storelock"
    /\ lockFree(mu)
    /\ mu' = p
    /\ pc' = [pc EXCEPT ![p] = "store"]
    /\ UNCHANGED <<scope, now, cache, ext, mutVer, storedBy, op, payload, ret, hist>>
    /\ UNCHANGED resVars

\* c.<kind>Cache = newCacheEntry(value, cacheTTL); c.mu.Unlock(); return clone(value)
ListStore(p) ==
    /\ pc[p] = "store"
    /\ mu = p
    /\ cache' = [cache EXCEPT ![op[p].kind] = newCacheEntry(payload[p], cacheTTL, now)]
    /\ storedBy' = [storedBy EXCEPT ![op[p].kind] =
                        IF op[p].refresh THEN "refresh" ELSE "norefresh"]
    /\ mu' = NoCaller
    /\ Return(p, NilErr, clone(payload[p]))
    /\ payload' = [payload EXCEPT ![p] = -1]
    /\ UNCHANGED <<scope, now, ext, mutVer, op, hist>>
    /\ UNCHANGED resVars


(***************************************************************************)
(* Mutations: LaunchInstance, DeleteInstance, CreateAlias, DeleteAlias     *)
(***************************************************************************)
\* What a caller may pass for a name, an instance or a command.
Strs == {"", "x"}

\* A validation that looks at the first argument only.
RejectedFirst(fn, args) ==
    CASE fn \in {"CreateAlias", "DeleteAlias", "SetPrimary", "CreateSnapshot",
                 "DeleteSnapshot"} -> args[1] = ""
      [] OTHER -> FALSE

\* The local validation at the head of a mutation.
\* CreateAlias: alias.Name == "" || alias.Instance == "" || alias.Command == ""
\* DeleteAlias: name == ""
\* SetPrimary: name == ""
\* CreateSnapshot: instance == ""
\* DeleteSnapshot: instance == "" || name == ""
\* LaunchInstance and DeleteInstance validate nothing.
Rejected(fn, args) ==
    CASE fn = "CreateAlias" -> args[1] = "" \/ args[2] = "" \/ args[3] = ""
      [] fn = "DeleteAlias" -> args[1] = ""
      [] fn = "SetPrimary" -> args[1] = ""
      [] fn = "CreateSnapshot" -> args[1] = ""
      [] fn = "DeleteSnapshot" -> args[1] = "" \/ args[2] = ""
      [] OTHER -> FALSE

\* The argument lists of each mutation: <<name>> or <<name, instance, command>>.
ArgsOf(fn) ==
    IF fn = "CreateAlias"
    THEN {<<"x", "x", "x">>, <<"", "x", "x">>, <<"x", "", "x">>, <<"x", "x", "">>}
    ELSE {<<n>> : n \in Strs}

\* External commands a mutation issues when every one succeeds.
Steps(fn, purge) == IF fn = "DeleteInstance" /\ purge THEN 2 ELSE 1

\* A caller enters a mutation; a rejected argument returns before any command.
CallMutation(p) ==
    /\ Free(p)
    /\ \E fn \in {"LaunchInstance", "DeleteInstance", "CreateAlias", "DeleteAlias"},
          pg \in BOOLEAN :
         \E a \in ArgsOf(fn) :
           /\ KindOf(fn) \in scope
           /\ fn # "DeleteInstance" => ~pg
           /\ ext[KindOf(fn)] + Steps(fn, pg) <= MaxVer
           /\ op' = [op EXCEPT ![p] = [fn |-> fn, kind |-> KindOf(fn), refresh |-> FALSE,
                                       args |-> a, purge |-> pg]]
           /\ IF Rejected(fn, a)
              THEN Return(p, ValidationErr, -1)
              ELSE /\ pc' = [pc EXCEPT ![p] = "command"]
                   /\ ret' = [ret EXCEPT ![p] = NoRet]
    /\ hist' = [hist EXCEPT ![p] = NoHist]
    /\ UNCHANGED <<scope, now, mu, cache, ext, mutVer, storedBy, payload>>
    /\ UNCHANGED resVars

\* c.run(ctx, "launch" | "delete" | "alias" | "unalias", ...): on success the
\* external tool's state of the kind changes.
MutationRun(p) ==
    /\ pc[p] = "command"
    /\ \E res \in ProcResults :
         IF run(res) # NilErr
         THEN /\ Return(p, run(res), -1)
              /\ UNCHANGED ext
         ELSE /\ ext' = [ext EXCEPT ![op[p].kind] = @ + 1]
              /\ pc' = [pc EXCEPT ![p] =
                           IF op[p].fn = "DeleteInstance" /\ op[p].purge
                           THEN "purge" ELSE "invlock"]
              /\ UNCHANGED ret
    /\ hist' = [hist EXCEPT ![p].ran = @ + 1]
    /\ UNCHANGED <<scope, now, mu, cache, mutVer, storedBy, op, payload>>
    /\ UNCHANGED resVars

\* DeleteInstance with purge: c.runSimple(ctx, "purge") after a successful delete.
DeletePurge(p) ==
    /\ pc[p] = "purge"
    /\ \E res \in ProcResults :
         IF run(res) # NilErr
         THEN /\ Return(p, run(res), -1)
              /\ UNCHANGED ext
         ELSE /\ ext' = [ext EXCEPT ![op[p].kind] = @ + 1]
              /\ pc' = [pc EXCEPT ![p] = "invlock"]
              /\ UNCHANGED ret
    /\ hist' = [hist EXCEPT ![p].ran = @ + 1]
    /\ UNCHANGED <<scope, now, mu, cache, mutVer, storedBy, op, payload>>
    /\ UNCHANGED resVars

\* invalidateInstances / invalidateAliases: c.mu.Lock()
InvalidateLock(p) ==
    /\ pc[p] = "invlock"
    /\ lockFree(mu)
    /\ mu' = p
    /\ pc' = [pc EXCEPT ![p] = "invalidate"]
    /\ UNCHANGED <<scope, now, cache, ext, mutVer, storedBy, op, payload, ret, hist>>
    /\ UNCHANGED resVars

\* An invalidation that leaves the slot as it is.
invalidateNothing(c, k) == c

\* invalidateInstances / invalidateAliases: c.<kind>Cache = nil
invalidate(c, k) == [c EXCEPT ![k] = NoEntry]

\* invalidateInstances / invalidateAliases: c.<kind>Cache = nil; Unlock; return nil
Invalidate(p) ==
    /\ pc[p] = "invalidate"
    /\ mu = p
    /\ cache' = invalidate(cache, op[p].kind)
    /\ storedBy' = [k \in Kinds |-> IF cache'[k] = NoEntry THEN "none" ELSE storedBy[k]]
    /\ mu' = NoCaller
    /\ mutVer' = [mutVer EXCEPT ![op[p].kind] = ext[op[p].kind]]
    /\ Return(p, NilErr, -1)
    /\ hist' = [hist EXCEPT ![p].chkEntry = cache[op[p].kind]]
    /\ UNCHANGED <<scope, now, ext, op, payload>>
    /\ UNCHANGED resVars

(***************************************************************************)
(* Power operations: Start, Stop, Suspend, Restart, RecoverInstance        *)
(***************************************************************************)
PowerOps ==
    {"StartInstance", "StopInstance", "SuspendInstance", "RestartInstance",
     "RecoverInstance"}

\* The arguments of the command: StopInstance adds "--cancel" when forced.
PowerArgs(fn, name, force) ==
    CASE fn = "StartInstance" -> <<"start", name>>
      [] fn = "StopInstance" ->
            IF force THEN <<"stop", "--cancel", name>> ELSE <<"stop", name>>
      [] fn = "SuspendInstance" -> <<"suspend", name>>
      [] fn = "RestartInstance" -> <<"restart", name>>
      [] fn = "RecoverInstance" -> <<"recover", name>>

\* A caller enters one of the five operations.
CallPower(p) ==
    /\ Free(p)
    /\ "instanceCache" \in scope
    /\ ext["instanceCache"] < MaxVer
    /\ \E fn \in PowerOps, force \in BOOLEAN :
         /\ force => fn = "StopInstance"
         /\ op' = [op EXCEPT ![p] = [fn |-> fn, kind |-> "instanceCache",
                                     refresh |-> FALSE,
                                     args |-> PowerArgs(fn, "x", force),
                                     purge |-> FALSE]]
    /\ pc' = [pc EXCEPT ![p] = "power"]
    /\ ret' = [ret EXCEPT ![p] = NoRet]
    /\ hist' = [hist EXCEPT ![p] = NoHist]
    /\ UNCHANGED <<scope, now, mu, cache, ext, mutVer, storedBy, payload>>
    /\ UNCHANGED resVars

\* c.runSimple(ctx, ...) or c.run(ctx, args...), and the return of its
\* error: on success the power state of the instance has changed, and with
\* it the payload of "multipass list".
PowerRun(p) ==
    /\ pc[p] = "power"
    /\ \E res \in ProcResults :
         /\ Return(p, run(res), -1)
         /\ IF run(res) # NilErr
            THEN UNCHANGED <<ext, mutVer>>
            ELSE /\ ext' = [ext EXCEPT !["instanceCache"] = @ + 1]
                 /\ mutVer' = [mutVer EXCEPT !["instanceCache"] = ext'["instanceCache"]]
    /\ hist' = [hist EXCEPT ![p].ran = @ + 1, ![p].chkEntry = cache["instanceCache"]]
    /\ UNCHANGED <<scope, now, mu, cache, storedBy, op, payload>>
    /\ UNCHANGED resVars

(***************************************************************************)
(* Environment                                                             *)
(***************************************************************************)
\* A second passes.
Tick ==
    /\ now < MaxTime
    /\ now' = now + 1
    /\ UNCHANGED <<scope, mu, cache, ext, mutVer, storedBy, pc, op, payload, ret, hist>>
    /\ UNCHANGED resVars


(***************************************************************************)
(* External tool: instances                                                *)
(***************************************************************************)
\* Instance names managed in the model.
Names == {"vm"}

\* Power states of the external tool; "Absent" is an instance the tool does
\* not know (never launched, or purged).
VmStates == {"Absent", "Running", "Stopped", "Suspended", "Deleted"}

\* Process outcomes the tool can always produce: a deadline overrun and a
\* failure with an unrelated message.
Overrun == [ok |-> FALSE, deadline |-> TRUE, stderr |-> <<>>]
Failure == [ok |-> FALSE, deadline |-> FALSE, stderr |-> <<"command", "failed">>]
NotExist == [ok |-> FALSE, deadline |-> FALSE,
             stderr |-> <<"instance", "does", "not", "exist">>]
Success == [ok |-> TRUE, deadline |-> FALSE, stderr |-> <<>>]

\* strings.EqualFold on the state names and on the "N/A" of an address list
Lower(str) ==
    CASE str \in {"Running", "running"} -> "running"
      [] str \in {"Deleted", "deleted"} -> "deleted"
      [] str \in {"N/A", "n/a", "N/a", "n/A"} -> "n/a"
      [] OTHER -> str
EqualFold(a, b) == Lower(a) = Lower(b)

\* A nil *models.Instance
NoInstance == [State |-> "nil"]

\* infoResponse.toModel(name): the entry of the name-keyed info map (of the
\* fields of the entry the handlers read only State).
toModel(info, name) ==
    IF name \notin DOMAIN info
    THEN [inst |-> NoInstance, err |-> MissingErr]
    ELSE [inst |-> [State |-> info[name]], err |-> NilErr]

\* client.GetInstance(ctx, name) for a reply of "multipass info <name>"
GetInstance(reply, name) ==
    LET err == runJSON(reply.res, reply.wellFormed) IN
      IF err # NilErr
      THEN IF errorsIsNotFound(err)
           THEN [inst |-> NoInstance, err |-> ErrNotFound]
           ELSE [inst |-> NoInstance, err |-> err]
      ELSE toModel(reply.info, name)

\* The info map the tool prints for a set of names.
InfoOf(v, names) == [n \in names |-> v[n]]

\* Replies of "multipass info <name> --format json": an unknown name fails
\* with "does not exist"; a known one prints its entry; a reply may also be
\* well-formed JSON without an entry for the name, or not JSON at all.  Of a
\* soft-deleted instance the tool prints the entry with state Deleted or
\* reports it as not existing (Read handles both).
InfoReplies(v, name) ==
    {[res |-> r, wellFormed |-> TRUE, info |-> InfoOf(v, {})] : r \in {Overrun, Failure}}
    \cup
    (IF v[name] \in {"Absent", "Deleted"}
     THEN {[res |-> NotExist, wellFormed |-> TRUE, info |-> InfoOf(v, {})]}
     ELSE {})
    \cup
    (IF v[name] # "Absent"
     THEN {[res |-> Success, wellFormed |-> TRUE, info |-> InfoOf(v, {name})],
           [res |-> Success, wellFormed |-> TRUE, info |-> InfoOf(v, {})],
           [res |-> Success, wellFormed |-> FALSE, info |-> InfoOf(v, {})]}
     ELSE {})

\* "multipass recover <name>": a soft-deleted instance becomes Stopped.
RecoverReplies(v, name) ==
    {[res |-> r, vm |-> v] : r \in {Overrun, Failure}}
    \cup
    (IF v[name] = "Absent"
     THEN {[res |-> NotExist, vm |-> v]}
     ELSE {[res |-> Success,
            vm |-> [v EXCEPT ![name] = IF @ = "Deleted" THEN "Stopped" ELSE @]]})

\* "multipass start <name>": a stopped or suspended instance becomes Running;
\* a soft-deleted one cannot be started.
StartReplies(v, name) ==
    {[res |-> r, vm |-> v] : r \in {Overrun, Failure}}
    \cup
    (CASE v[name] = "Absent" -> {[res |-> NotExist, vm |-> v]}
       [] v[name] = "Deleted" -> {}
       [] OTHER -> {[res |-> Success, vm |-> [v EXCEPT ![name] = "Running"]]})


(***************************************************************************)
(* Reconciliation handlers: state                                          *)
(***************************************************************************)
\* What the handlers of the instance power state leave alone.
restVars == <<mounted, aliasExt, aliasDef, snapshotExt, tfAlias, tfSnapshot, diff, fx>>

\* The name of the managed instance (state.Name / plan.Name).
TheName == "vm"

NoPlan == [Mounts |-> <<>>, Primary |-> FALSE]

\* No reply of "multipass info" was taken yet.
NoReply == [res |-> Success, wellFormed |-> FALSE, info |-> InfoOf(<<>>, {})]

IdleH == [fn |-> "none", pc |-> "idle", inst |-> NoInstance, err |-> NilErr,
          first |-> NilErr, errors |-> {}, warnings |-> {}, cmds |-> <<>>,
          removed |-> FALSE, plan |-> NoPlan, args |-> <<>>, i |-> 0,
          reply |-> NoReply, before |-> {}, prior |-> <<>>, errs |-> <<>>]

HandlerFree == h.pc = "idle"

\* The framework takes the response of the handler that returned.
HandlerReturn ==
    /\ h.pc = "done"
    /\ h' = IdleH
    /\ UNCHANGED <<vm, mounted, aliasExt, aliasDef, snapshotExt, tfInstance, tfAlias, tfSnapshot>>
    /\ UNCHANGED <<cacheVars, diff, fx>>

\* resp.Diagnostics.AddError / AddWarning
AddError(hh, summary) == [hh EXCEPT !.errors = @ \cup {summary}]
AddWarning(hh, summary) == [hh EXCEPT !.warnings = @ \cup {summary}]

\* The handler issued the external command c.
Issued(hh, c) == [hh EXCEPT !.cmds = Append(@, c)]

\* The handler issued the external command c, which ended with the error e.
Ran(hh, c, e) == [Issued(hh, c) EXCEPT !.err = e, !.errs = Append(@, e)]

\* The handler returns.
Done(hh) == [hh EXCEPT !.pc = "done"]

(***************************************************************************)
(* instanceResource.Read                                                   *)
(***************************************************************************)
\* A return that leaves the resource in the tracked state.
ReadKeep(hh) ==
    /\ h' = Done(hh)
    /\ UNCHANGED tfInstance

\* resp.State.RemoveResource(ctx); return
ReadRemove(hh) ==
    /\ h' = Done([hh EXCEPT !.removed = TRUE])
    /\ tfInstance' = [tfInstance EXCEPT !.present = FALSE]

\* applyInstanceToModel(ctx, instance, &state); resp.State.Set(ctx, &state)
ReadApply(hh) ==
    /\ h' = Done(hh)
    /\ tfInstance' = [tfInstance EXCEPT !.State = hh.inst.State]

\* A return with an error diagnostic: the tracked state stays as it was.
ReadFail(hh, summary) ==
    /\ h' = Done(AddError(hh, summary))
    /\ UNCHANGED tfInstance

\* A Read without the soft-delete branch.
ReadSettleNoRecover(hh) ==
    IF hh.err # NilErr
    THEN IF hh.err = ErrNotFound
         THEN ReadRemove(hh)
         ELSE ReadFail(hh, "Failed to read instance")
    ELSE ReadApply(hh)

\* Read from "if err != nil" on: the not-found and error returns, then the
\* soft-delete branch or the final write of the state.
ReadSettle(hh) ==
    IF hh.err # NilErr
    THEN IF hh.err = ErrNotFound
         THEN ReadRemove(hh)
         ELSE ReadFail(hh, "Failed to read instance")
    ELSE IF tfInstance.AutoRecover /\ EqualFold(hh.inst.State, "Deleted")
         THEN /\ h' = [hh EXCEPT !.pc = "recover2"]
              /\ UNCHANGED tfInstance
         ELSE ReadApply(hh)

\* The fetched instance and error of a GetInstance call, kept in the handler
\* with the reply of the tool they were made from.
Fetched(hh, reply) ==
    LET g == GetInstance(reply, TheName)
    IN [Issued(hh, "info") EXCEPT !.inst = g.inst, !.err = g.err, !.reply = reply]

ReadBegin ==
    /\ HandlerFree
    /\ tfInstance.present
    /\ h' = [IdleH EXCEPT !.fn = "Read", !.pc = "get1"]
    /\ UNCHANGED <<vm, tfInstance>>
    /\ UNCHANGED <<restVars, cacheVars>>

\* instance, err := r.client.GetInstance(ctx, name)
ReadGet1 ==
    /\ h.fn = "Read" /\ h.pc = "get1"
    /\ \E reply \in InfoReplies(vm, TheName) :
         LET f == Fetched(h, reply)
             hh == [f EXCEPT !.first = f.err]
         IN IF hh.err = ErrNotFound /\ tfInstance.AutoRecover
            THEN /\ h' = [hh EXCEPT !.pc = "recover1"]
                 /\ UNCHANGED tfInstance
            ELSE ReadSettle(hh)
    /\ UNCHANGED <<vm, restVars, cacheVars>>

\* The instance is missing and auto_recover is set: RecoverInstance.
ReadRecover1 ==
    /\ h.fn = "Read" /\ h.pc = "recover1"
    /\ \E reply \in RecoverReplies(vm, TheName) :
         /\ vm' = reply.vm
         /\ IF run(reply.res) # NilErr
            THEN ReadRemove(AddWarning(Issued(h, "recover"),
                                       "Failed to auto-recover instance"))
            ELSE /\ h' = [Issued(h, "recover") EXCEPT !.pc = "get2"]
                 /\ UNCHANGED tfInstance
    /\ UNCHANGED <<restVars, cacheVars>>

\* The GetInstance after a successful recover of a missing instance.
ReadGet2 ==
    /\ h.fn = "Read" /\ h.pc = "get2"
    /\ \E reply \in InfoReplies(vm, TheName) :
         LET hh == Fetched(h, reply)
         IN IF /\ hh.err = NilErr
               /\ tfInstance.AutoStartOnRecover
               /\ ~EqualFold(hh.inst.State, "Running")
            THEN /\ h' = [hh EXCEPT !.pc = "start1"]
                 /\ UNCHANGED tfInstance
            ELSE ReadSettle(hh)
    /\ UNCHANGED <<vm, restVars, cacheVars>>

\* StartInstance after the recover of a missing instance.
ReadStart1 ==
    /\ h.fn = "Read" /\ h.pc = "start1"
    /\ \E reply \in StartReplies(vm, TheName) :
         /\ vm' = reply.vm
         /\ IF run(reply.res) # NilErr
            THEN ReadSettle(AddWarning(Issued(h, "start"),
                                       "Failed to auto-start instance after recover"))
            ELSE /\ h' = [Issued(h, "start") EXCEPT !.pc = "get3"]
                 /\ UNCHANGED tfInstance
    /\ UNCHANGED <<restVars, cacheVars>>

\* The GetInstance after that start.
ReadGet3 ==
    /\ h.fn = "Read" /\ h.pc = "get3"
    /\ \E reply \in InfoReplies(vm, TheName) :
         ReadSettle(Fetched(h, reply))
    /\ UNCHANGED <<vm, restVars, cacheVars>>

\* The fetched instance is soft-deleted and auto_recover is set: RecoverInstance.
ReadRecover2 ==
    /\ h.fn = "Read" /\ h.pc = "recover2"
    /\ \E reply \in RecoverReplies(vm, TheName) :
         /\ vm' = reply.vm
         /\ IF run(reply.res) # NilErr
            THEN ReadApply(AddWarning(Issued(h, "recover"),
                                      "Failed to auto-recover soft-deleted instance"))
            ELSE /\ h' = [Issued(h, "recover") EXCEPT !.pc = "get4"]
                 /\ UNCHANGED tfInstance
    /\ UNCHANGED <<restVars, cacheVars>>

\* The GetInstance after the recover of a soft-deleted instance.
ReadGet4 ==
    /\ h.fn = "Read" /\ h.pc = "get4"
    /\ \E reply \in InfoReplies(vm, TheName) :
         LET hh == Fetched(h, reply)
         IN IF hh.err # NilErr
            THEN ReadFail(hh, "Failed to read instance after auto-recover")
            ELSE IF tfInstance.AutoStartOnRecover /\ ~EqualFold(hh.inst.State, "Running")
                 THEN /\ h' = [hh EXCEPT !.pc = "start2"]
                      /\ UNCHANGED tfInstance
                 ELSE ReadApply(hh)
    /\ UNCHANGED <<vm, restVars, cacheVars>>

\* StartInstance after the recover of a soft-deleted instance.
ReadStart2 ==
    /\ h.fn = "Read" /\ h.pc = "start2"
    /\ \E reply \in StartReplies(vm, TheName) :
         /\ vm' = reply.vm
         /\ IF run(reply.res) # NilErr
            THEN ReadApply(AddWarning(Issued(h, "start"),
                                      "Failed to auto-start instance after recover"))
            ELSE /\ h' = [Issued(h, "start") EXCEPT !.pc = "get5"]
                 /\ UNCHANGED tfInstance
    /\ UNCHANGED <<restVars, cacheVars>>

\* The GetInstance after that start.
ReadGet5 ==
    /\ h.fn = "Read" /\ h.pc = "get5"
    /\ \E reply \in InfoReplies(vm, TheName) :
         LET hh == Fetched(h, reply)
         IN IF hh.err # NilErr
            THEN ReadFail(hh, "Failed to read instance after auto-start")
            ELSE ReadApply(hh)
    /\ UNCHANGED <<vm, restVars, cacheVars>>

\* Between two handlers the instance changes outside Terraform: it is
\* stopped, started, suspended, soft-deleted, purged or launched by hand.
DriftInstance ==
    /\ HandlerFree
    /\ \E st \in VmStates \ {vm[TheName]} : vm' = [vm EXCEPT ![TheName] = st]
    /\ UNCHANGED <<h, tfInstance, restVars, cacheVars>>

\* While a Read runs the instance changes outside Terraform as well.
DriftDuringRead ==
    /\ h.fn = "Read" /\ h.pc \notin {"idle", "done"}
    /\ \E st \in VmStates \ {vm[TheName]} : vm' = [vm EXCEPT ![TheName] = st]
    /\ UNCHANGED <<h, tfInstance, restVars, cacheVars>>


(***************************************************************************)
(* aliasResource and snapshotResource: Delete                              *)
(***************************************************************************)
\* The names in the tracked state of the alias and of the snapshot.
TheAlias == "x"
TheSnapshot == "x"

\* Replies of "multipass unalias <name>" and of "multipass delete --purge
\* <instance>.<snapshot>": what is not there fails with a message saying so.
GoneReplies ==
    {[ok |-> FALSE, deadline |-> FALSE, stderr |-> e] :
        e \in {<<"alias", "does", "not", "exist">>, <<"snapshot", "not", "found">>}}

RemoveReplies(exists) ==
    {[res |-> r, exists |-> exists] : r \in {Overrun, Failure}}
    \cup
    (IF exists
     THEN {[res |-> Success, exists |-> FALSE]}
     ELSE {[res |-> r, exists |-> FALSE] : r \in GoneReplies})

\* client.DeleteAlias(ctx, name): the error it returns.
DeleteAlias(name, res) ==
    IF Rejected("DeleteAlias", <<name>>) THEN ValidationErr ELSE run(res)

\* client.DeleteSnapshot(ctx, instance, name, purge): the error it returns.
DeleteSnapshot(instance, name, res) ==
    IF instance = "" \/ name = "" THEN ValidationErr ELSE run(res)

\* aliasResource.Delete: err != nil && err != multipasscli.ErrNotFound
AliasDeleteFails(err) == err # NilErr /\ err # ErrNotFound

\* snapshotResource.Delete: an error other than multipasscli.ErrNotFound
SnapshotDeleteFails(err) == err # NilErr /\ ~(err = ErrNotFound)

AliasDeleteBegin ==
    /\ HandlerFree
    /\ tfAlias
    /\ h' = [IdleH EXCEPT !.fn = "AliasDelete", !.pc = "unalias"]
    /\ UNCHANGED <<vm, mounted, aliasExt, aliasDef, snapshotExt, tfInstance, tfAlias, tfSnapshot>>
    /\ UNCHANGED <<cacheVars, diff, fx>>

\* aliasResource.Delete: DeleteAlias, which clears the alias slot on success;
\* then the framework drops the resource unless an error was reported.
AliasDelete ==
    /\ h.fn = "AliasDelete" /\ h.pc = "unalias"
    /\ \E reply \in RemoveReplies(aliasExt) :
         LET err == DeleteAlias(TheAlias, reply.res)
             hh == [Issued(h, "unalias") EXCEPT !.err = err, !.reply = reply]
         IN /\ aliasExt' = (IF err = NilErr THEN reply.exists ELSE aliasExt)
            /\ aliasDef' = (IF err = NilErr THEN NoAliasDef ELSE aliasDef)
            /\ cache' = IF err = NilErr THEN invalidate(cache, "aliasCache") ELSE cache
            /\ IF AliasDeleteFails(err)
               THEN /\ h' = Done(AddError(hh, "Failed to delete alias"))
                    /\ UNCHANGED tfAlias
               ELSE /\ h' = Done([hh EXCEPT !.removed = TRUE])
                    /\ tfAlias' = FALSE
    /\ UNCHANGED <<vm, mounted, snapshotExt, tfInstance, tfSnapshot>>
    /\ UNCHANGED <<scope, now, mu, ext, mutVer, storedBy, pc, op, payload, ret, hist, diff, fx>>

SnapshotDeleteBegin ==
    /\ HandlerFree
    /\ tfSnapshot
    /\ h' = [IdleH EXCEPT !.fn = "SnapshotDelete", !.pc = "delete"]
    /\ UNCHANGED <<vm, mounted, aliasExt, aliasDef, snapshotExt, tfInstance, tfAlias, tfSnapshot>>
    /\ UNCHANGED <<cacheVars, diff, fx>>

\* snapshotResource.Delete: DeleteSnapshot(ctx, instance, name, true); then the
\* framework drops the resource unless an error was reported.
SnapshotDelete ==
    /\ h.fn = "SnapshotDelete" /\ h.pc = "delete"
    /\ \E reply \in RemoveReplies(snapshotExt) :
         LET err == DeleteSnapshot(TheName, TheSnapshot, reply.res)
             hh == [Issued(h, "delete") EXCEPT !.err = err, !.reply = reply]
         IN /\ snapshotExt' = IF err = NilErr THEN reply.exists ELSE snapshotExt
            /\ IF SnapshotDeleteFails(err)
               THEN /\ h' = Done(AddError(hh, "Failed to delete snapshot"))
                    /\ UNCHANGED tfSnapshot
               ELSE /\ h' = Done([hh EXCEPT !.removed = TRUE])
                    /\ tfSnapshot' = FALSE
    /\ UNCHANGED <<vm, mounted, aliasExt, aliasDef, tfInstance, tfAlias>>
    /\ UNCHANGED <<cacheVars, diff, fx>>

\* An alias command that leaves out the working directory.
AliasOfNoDir(args) ==
    [Instance |-> args[2], Command |-> args[3], WorkingDirectory |-> ""]

\* What "multipass alias [--working-directory <dir>] <instance>:<command>
\* <name>" defines for the arguments <<name, instance, command>> or
\* <<name, instance, command, dir>> of CreateAlias.
AliasOf(args) ==
    [Instance |-> args[2], Command |-> args[3],
     WorkingDirectory |-> IF Len(args) > 3 THEN args[4] ELSE ""]

\* client.CreateAlias(ctx, alias): the error it returns.
CreateAlias(args, res) ==
    IF Rejected("CreateAlias", args) THEN ValidationErr ELSE run(res)

\* Replies of "multipass alias <instance>:<command> <name>": the alias is
\* defined, and the definition of a name that is taken is replaced, or the
\* tool refuses.
AliasReplies(exists) ==
    {[res |-> r, exists |-> exists] : r \in {Overrun, Failure}}
    \cup {[res |-> Success, exists |-> TRUE]}

AliasCreateBegin ==
    /\ HandlerFree
    /\ ~tfAlias
    /\ \E a \in ArgsOf("CreateAlias") :
         h' = [IdleH EXCEPT !.fn = "AliasCreate", !.pc = "alias", !.args = a]
    /\ UNCHANGED <<vm, mounted, aliasExt, aliasDef, snapshotExt, tfInstance, tfAlias, tfSnapshot>>
    /\ UNCHANGED <<cacheVars, diff, fx>>

\* aliasResource.Create: CreateAlias, which clears the alias slot on success;
\* then plan.ID = plan.Name and resp.State.Set(ctx, &plan).
AliasCreate ==
    /\ h.fn = "AliasCreate" /\ h.pc = "alias"
    /\ \E reply \in AliasReplies(aliasExt) :
         LET err == CreateAlias(h.args, reply.res)
             hh == [(IF err = ValidationErr THEN h ELSE Issued(h, "alias"))
                       EXCEPT !.err = err]
         IN /\ aliasExt' = (IF err = NilErr THEN reply.exists ELSE aliasExt)
            /\ aliasDef' = (IF err = NilErr THEN AliasOf(h.args) ELSE aliasDef)
            /\ cache' = IF err = NilErr THEN invalidate(cache, "aliasCache") ELSE cache
            /\ IF err # NilErr
               THEN /\ h' = Done(AddError(hh, "Failed to create alias"))
                    /\ UNCHANGED tfAlias
               ELSE /\ h' = Done(hh)
                    /\ tfAlias' = TRUE
    /\ UNCHANGED <<vm, mounted, snapshotExt, tfInstance, tfSnapshot>>
    /\ UNCHANGED <<scope, now, mu, ext, mutVer, storedBy, pc, op, payload, ret, hist, diff, fx>>

\* The plans of an alias Update: the name stays (a new name replaces the
\* resource), the command and the working directory change.
AliasPlans ==
    {<<TheAlias, "x", c, w>> : c \in {"x", "y", ""}, w \in {"", "w"}}

AliasUpdateBegin ==
    /\ HandlerFree
    /\ tfAlias
    /\ \E a \in AliasPlans :
         h' = [IdleH EXCEPT !.fn = "AliasUpdate", !.pc = "alias", !.args = a,
                            !.before = IF aliasExt THEN {aliasDef} ELSE {}]
    /\ UNCHANGED <<vm, mounted, aliasExt, aliasDef, snapshotExt, tfInstance, tfAlias, tfSnapshot>>
    /\ UNCHANGED <<cacheVars, diff, fx>>

\* aliasResource.Update: CreateAlias with the planned alias, which clears the
\* alias slot on success; then resp.State.Set(ctx, &plan).
AliasUpdate ==
    /\ h.fn = "AliasUpdate" /\ h.pc = "alias"
    /\ \E reply \in AliasReplies(aliasExt) :
         LET err == CreateAlias(h.args, reply.res)
             hh == IF err = ValidationErr
                   THEN [h EXCEPT !.err = err, !.errs = Append(@, err)]
                   ELSE Ran(h, "alias", err)
         IN /\ aliasExt' = (IF err = NilErr THEN reply.exists ELSE aliasExt)
            /\ aliasDef' = (IF err = NilErr THEN AliasOf(h.args) ELSE aliasDef)
            /\ cache' = IF err = NilErr THEN invalidate(cache, "aliasCache") ELSE cache
            /\ h' = IF err # NilErr
                    THEN Done(AddError(hh, "Failed to update alias"))
                    ELSE Done(hh)
    /\ UNCHANGED <<vm, mounted, snapshotExt, tfInstance, tfAlias, tfSnapshot>>
    /\ UNCHANGED <<scope, now, mu, ext, mutVer, storedBy, pc, op, payload, ret, hist, diff, fx>>

\* Replies of "multipass snapshot --name <snapshot> <instance>": the tool
\* takes snapshots of stopped instances only and refuses a name in use.
SnapshotReplies(v, name, exists) ==
    {[res |-> r, exists |-> exists] : r \in {Overrun, Failure}}
    \cup
    (IF v[name] = "Absent" THEN {[res |-> NotExist, exists |-> exists]} ELSE {})
    \cup
    (IF v[name] = "Stopped" /\ ~exists THEN {[res |-> Success, exists |-> TRUE]} ELSE {})

\* client.CreateSnapshot(ctx, instance, name, comment): the error it returns.
CreateSnapshot(instance, res) ==
    IF instance = "" THEN ValidationErr ELSE run(res)

\* A Create that takes every outcome of CreateSnapshot for a success.
SnapshotCreateFailsNever(err) == FALSE

\* snapshotResource.Create: if err != nil
SnapshotCreateFails(err) == err # NilErr

SnapshotCreateBegin ==
    /\ HandlerFree
    /\ ~tfSnapshot
    /\ \E instance \in {TheName, ""}, name \in {TheSnapshot, ""} :
         h' = [IdleH EXCEPT !.fn = "SnapshotCreate", !.pc = "snapshot",
                            !.args = <<instance, name>>]
    /\ UNCHANGED <<vm, mounted, aliasExt, aliasDef, snapshotExt, tfInstance, tfAlias, tfSnapshot>>
    /\ UNCHANGED <<cacheVars, diff, fx>>

\* snapshotResource.Create: CreateSnapshot, then resp.State.Set(ctx, &plan).
SnapshotCreate ==
    /\ h.fn = "SnapshotCreate" /\ h.pc = "snapshot"
    /\ \E reply \in SnapshotReplies(vm, TheName, snapshotExt) :
         LET err == CreateSnapshot(h.args[1], reply.res)
             hh == IF err = ValidationErr
                   THEN [h EXCEPT !.err = err, !.errs = Append(@, err)]
                   ELSE Ran(h, "snapshot", err)
         IN /\ snapshotExt' = (IF err = ValidationErr THEN snapshotExt ELSE reply.exists)
            /\ IF SnapshotCreateFails(err)
               THEN /\ h' = Done(AddError(hh, "Failed to create snapshot"))
                    /\ UNCHANGED tfSnapshot
               ELSE /\ h' = Done(hh)
                    /\ tfSnapshot' = TRUE
    /\ UNCHANGED <<vm, mounted, aliasExt, aliasDef, tfInstance, tfAlias>>
    /\ UNCHANGED <<cacheVars, diff, fx>>

\* snapshotResource.ImportState followed by the Read that keeps a snapshot it
\* finds: Terraform starts to track the snapshot that exists.
SnapshotImport ==
    /\ HandlerFree
    /\ snapshotExt /\ ~tfSnapshot
    /\ tfSnapshot' = TRUE
    /\ UNCHANGED <<h, vm, mounted, aliasExt, aliasDef, snapshotExt, tfInstance, tfAlias>>
    /\ UNCHANGED <<cacheVars, diff, fx>>

\* Between two handlers the alias is removed or created by hand.
DriftAlias ==
    /\ HandlerFree
    /\ aliasExt' = ~aliasExt
    /\ \E a \in {<<TheAlias, "x", "x">>, <<TheAlias, "x", "z">>} :
         aliasDef' = (IF aliasExt THEN NoAliasDef ELSE AliasOf(a))
    /\ UNCHANGED <<h, vm, mounted, snapshotExt, tfInstance, tfAlias, tfSnapshot>>
    /\ UNCHANGED <<cacheVars, diff, fx>>

\* Between two handlers the snapshot is removed or taken by hand.
DriftSnapshot ==
    /\ HandlerFree
    /\ snapshotExt' = ~snapshotExt
    /\ UNCHANGED <<h, vm, mounted, aliasExt, aliasDef, tfInstance, tfAlias, tfSnapshot>>
    /\ UNCHANGED <<cacheVars, diff, fx>>

(***************************************************************************)
(* Mount diffing                                                           *)
(***************************************************************************)
\* mountConfigMap: key := host + "|" + instance
mountKey(c) == c.HostPath \o "|" \o c.InstancePath

\* The entries mountConfigMap keeps: host == "" || instance == "" is skipped.
mountKept(c) == c.HostPath # "" /\ c.InstancePath # ""

\* mountConfigMap(configs): result[key] = c for every kept c in list order, so
\* the last entry of a key stays.
mountConfigMap(configs) ==
    LET kept == {i \in 1 .. Len(configs) : mountKept(configs[i])}
        keys == {mountKey(configs[i]) : i \in kept}
        last(k) == CHOOSE i \in kept :
                       /\ mountKey(configs[i]) = k
                       /\ \A j \in kept : mountKey(configs[j]) = k => j <= i
    IN [k \in keys |-> configs[last(k)]]

\* diffMounts(plan, state): the two result lists as sets (the code appends in
\* map iteration order).
diffMounts(plan, state) ==
    LET planMap == mountConfigMap(plan)
        stateMap == mountConfigMap(state)
    IN [toAdd |->
            {planMap[k] : k \in {x \in DOMAIN planMap :
                                    /\ x \in DOMAIN stateMap
                                    /\ stateMap[x].ReadOnly # planMap[x].ReadOnly}}
            \cup
            {planMap[k] : k \in {x \in DOMAIN planMap : x \notin DOMAIN stateMap}},
        toRemove |->
            {stateMap[k] : k \in {x \in DOMAIN stateMap : x \notin DOMAIN planMap}}
            \cup
            {stateMap[k] : k \in {x \in DOMAIN stateMap :
                                     /\ x \in DOMAIN planMap
                                     /\ stateMap[x].ReadOnly # planMap[x].ReadOnly}}]

\* mountConfigToModel
mountConfigToModel(m) ==
    [HostPath |-> m.HostPath, InstancePath |-> m.InstancePath, ReadOnly |-> m.ReadOnly]

\* All lists of at most n entries over a set.
ListsOf(S, n) == UNION {[1 .. k -> S] : k \in 0 .. n}

(***************************************************************************)
(* instanceResource.Update                                                 *)
(***************************************************************************)
\* The lists a mounts block can hold are bounded by MaxMounts entries.
MaxMounts == 2

\* Mount blocks of the configurations of the model.
UpdMounts ==
    [HostPath : {"/h"}, InstancePath : {"/t1", "/t2"}, ReadOnly : BOOLEAN]

\* The instance mounts of the tool are keyed by the target path.
MountSets ==
    {ms \in SUBSET UpdMounts :
        \A a, b \in ms : a.InstancePath = b.InstancePath => a = b}

\* client.Unmount(ctx, name, models.Mount{}): "multipass umount <name>"
\* removes every mount of the instance.
UnmountReplies(ms) ==
    {[res |-> r, mounted |-> ms] : r \in {Overrun, Failure}}
    \cup {[res |-> Success, mounted |-> {}]}

\* client.Mount(ctx, name, mount): "multipass mount <host> <name>:<target>"
\* adds the mount; a target that is mounted already is refused.
MountReplies(ms, m) ==
    {[res |-> r, mounted |-> ms] : r \in {Overrun, Failure}}
    \cup
    (IF \E x \in ms : x.InstancePath = m.InstancePath
     THEN {}
     ELSE {[res |-> Success, mounted |-> ms \cup {m}]})

\* A remount of the added entries only.
RemountedAdded(plan, state) ==
    LET Added(m) == m \in diffMounts(plan, state).toAdd
    IN SelectSeq(plan, Added)

\* The mounts Update remounts after the unmount: for _, m := range plan.Mounts
Remounted(plan, state) == plan

\* len(toAdd) > 0 || len(toRemove) > 0
MountsChanged(plan, state) ==
    diffMounts(plan, state).toAdd # {} \/ diffMounts(plan, state).toRemove # {}

\* Update past SetPrimary: the mount diff decides between the unmount and
\* going straight to refreshState.
UpdateMounts(hh) ==
    IF MountsChanged(hh.plan.Mounts, tfInstance.Mounts)
    THEN [hh EXCEPT !.pc = "unmount"]
    ELSE [hh EXCEPT !.pc = "refresh"]

\* Update is entered with a plan; conflicting cloud-init attributes return
\* an error before any command.
UpdateBegin ==
    /\ HandlerFree
    /\ tfInstance.present
    /\ \E ms \in ListsOf(UpdMounts, MaxMounts), prim \in BOOLEAN, conflict \in BOOLEAN :
         LET hh == [IdleH EXCEPT !.fn = "Update",
                                 !.plan = [Mounts |-> ms, Primary |-> prim],
                                 !.before = mounted,
                                 !.prior = tfInstance.Mounts]
         IN h' = IF conflict
                 THEN Done(AddError(hh, "Conflicting cloud-init configuration"))
                 ELSE IF prim /\ ~tfInstance.Primary
                      THEN [hh EXCEPT !.pc = "setprimary"]
                      ELSE UpdateMounts(hh)
    /\ UNCHANGED <<vm, mounted, aliasExt, aliasDef, snapshotExt, tfInstance, tfAlias, tfSnapshot>>
    /\ UNCHANGED <<cacheVars, diff, fx>>

\* r.client.SetPrimary(ctx, plan.Name)
UpdateSetPrimary ==
    /\ h.fn = "Update" /\ h.pc = "setprimary"
    /\ \E res \in {Success, Overrun, Failure} :
         h' = IF run(res) # NilErr
              THEN Done(AddError(Issued(h, "set"), "Failed to set primary"))
              ELSE UpdateMounts(Issued(h, "set"))
    /\ UNCHANGED <<vm, mounted, aliasExt, aliasDef, snapshotExt, tfInstance, tfAlias, tfSnapshot>>
    /\ UNCHANGED <<cacheVars, diff, fx>>

\* r.client.Unmount(ctx, plan.Name, models.Mount{})
UpdateUnmount ==
    /\ h.fn = "Update" /\ h.pc = "unmount"
    /\ \E reply \in UnmountReplies(mounted) :
         /\ mounted' = reply.mounted
         /\ h' = IF run(reply.res) # NilErr
                 THEN Done(AddError(Issued(h, "umount"),
                                    "Failed to unmount existing mounts"))
                 ELSE IF Len(Remounted(h.plan.Mounts, tfInstance.Mounts)) = 0
                      THEN [Issued(h, "umount") EXCEPT !.pc = "refresh"]
                      ELSE [Issued(h, "umount") EXCEPT !.pc = "mount", !.i = 1]
    /\ UNCHANGED <<vm, aliasExt, aliasDef, snapshotExt, tfInstance, tfAlias, tfSnapshot>>
    /\ UNCHANGED <<cacheVars, diff, fx>>

\* r.client.Mount(ctx, plan.Name, mountConfigToModel(m)) for the next m
UpdateMount ==
    /\ h.fn = "Update" /\ h.pc = "mount"
    /\ LET todo == Remounted(h.plan.Mounts, tfInstance.Mounts) IN
       \E reply \in MountReplies(mounted, mountConfigToModel(todo[h.i])) :
         /\ mounted' = reply.mounted
         /\ h' = IF run(reply.res) # NilErr
                 THEN Done(AddError(Issued(h, "mount"), "Failed to mount directory"))
                 ELSE IF h.i = Len(todo)
                      THEN [Issued(h, "mount") EXCEPT !.pc = "refresh"]
                      ELSE [Issued(h, "mount") EXCEPT !.i = @ + 1]
    /\ UNCHANGED <<vm, aliasExt, aliasDef, snapshotExt, tfInstance, tfAlias, tfSnapshot>>
    /\ UNCHANGED <<cacheVars, diff, fx>>

\* refreshState(ctx, plan.Name, &plan); resp.State.Set(ctx, &plan)
UpdateRefresh ==
    /\ h.fn = "Update" /\ h.pc = "refresh"
    /\ \E reply \in InfoReplies(vm, TheName) :
         LET hh == Fetched(h, reply)
         IN IF hh.err # NilErr
            THEN /\ h' = Done(AddError(hh, "Failed to refresh instance state"))
                 /\ UNCHANGED tfInstance
            ELSE /\ h' = Done(hh)
                 /\ tfInstance' = [tfInstance EXCEPT !.State = hh.inst.State,
                                                     !.Mounts = h.plan.Mounts,
                                                     !.Primary = h.plan.Primary]
    /\ UNCHANGED <<vm, mounted, aliasExt, aliasDef, snapshotExt, tfAlias, tfSnapshot>>
    /\ UNCHANGED <<cacheVars, diff, fx>>

\* Between two handlers the mounts of the instance change outside Terraform.
DriftMounts ==
    /\ HandlerFree
    /\ \E ms \in MountSets \ {mounted} : mounted' = ms
    /\ UNCHANGED <<h, vm, aliasExt, aliasDef, snapshotExt, tfInstance, tfAlias, tfSnapshot>>
    /\ UNCHANGED <<cacheVars, diff, fx>>



(***************************************************************************)
(* diffMounts as a function of its inputs                                  *)
(***************************************************************************)
\* The input lists of diffMounts hold at most MaxDiff entries.
MaxDiff == 2

\* Mount blocks with paths that are empty, plain, or contain the "|" of the
\* map key.
DiffConfigs ==
    [HostPath : {"", "a", "a|b"}, InstancePath : {"c", "b|c"}, ReadOnly : BOOLEAN]

\* The (host path, instance path) pair of a mount block.
PairOf(c) == <<c.HostPath, c.InstancePath>>

\* Lists that name every (host path, instance path) pair at most once.
DiffLists ==
    {l \in ListsOf(DiffConfigs, MaxDiff) :
        \A i, j \in 1 .. Len(l) : PairOf(l[i]) = PairOf(l[j]) => i = j}

NoDiff == [plan |-> <<>>, state |-> <<>>, done |-> FALSE, toAdd |-> {}, toRemove |-> {}]

DiffInit == \E pl \in DiffLists, st \in DiffLists :
                diff = [NoDiff EXCEPT !.plan = pl, !.state = st]

\* toAdd, toRemove := diffMounts(plan.Mounts, state.Mounts)
DiffMounts ==
    /\ ~diff.done
    /\ diff' = [diff EXCEPT !.done = TRUE,
                            !.toAdd = diffMounts(diff.plan, diff.state).toAdd,
                            !.toRemove = diffMounts(diff.plan, diff.state).toRemove]
    /\ UNCHANGED <<cacheVars, vm, mounted, aliasExt, aliasDef, snapshotExt, tfInstance,
                   tfAlias, tfSnapshot, h, fx>>

(***************************************************************************)
(* instanceResource.Create and instanceResource.Delete                     *)
(***************************************************************************)
\* Replies of "multipass launch --name <name> ...": a name in use is refused;
\* a launch that overruns its deadline may have created the instance.
LaunchReplies(v, name) ==
    {[res |-> Overrun, vm |-> v], [res |-> Failure, vm |-> v]}
    \cup
    (IF v[name] = "Absent"
     THEN {[res |-> Success, vm |-> [v EXCEPT ![name] = "Running"]],
           [res |-> Overrun, vm |-> [v EXCEPT ![name] = "Running"]]}
     ELSE {})

\* Replies of "multipass delete <name>": the instance becomes soft-deleted.
DeleteReplies(v, name) ==
    {[res |-> r, vm |-> v] : r \in {Overrun, Failure}}
    \cup
    (IF v[name] = "Absent"
     THEN {[res |-> NotExist, vm |-> v]}
     ELSE {[res |-> Success, vm |-> [v EXCEPT ![name] = "Deleted"]]})

\* Replies of "multipass purge": every soft-deleted instance is removed.
PurgeReplies(v) ==
    {[res |-> r, vm |-> v] : r \in {Overrun, Failure, NotExist}}
    \cup
    {[res |-> Success,
      vm |-> [n \in DOMAIN v |-> IF v[n] = "Deleted" THEN "Absent" ELSE v[n]]]}

\* client.SetPrimary(ctx, name): the error it returns.
SetPrimary(name, res) == IF name = "" THEN ValidationErr ELSE run(res)

\* What the instance Create and Delete leave alone.
lifeRest == <<mounted, aliasExt, aliasDef, snapshotExt, tfAlias, tfSnapshot, diff, fx>>
lifeCache == <<scope, now, mu, ext, mutVer, storedBy, pc, op, payload, ret, hist>>

\* Create is entered with a plan; conflicting cloud-init attributes return
\* an error before any command.
CreateBegin ==
    /\ HandlerFree
    /\ ~tfInstance.present
    /\ \E prim \in BOOLEAN, conflict \in BOOLEAN :
         LET hh == [IdleH EXCEPT !.fn = "Create",
                                 !.plan = [Mounts |-> <<>>, Primary |-> prim]]
         IN h' = IF conflict
                 THEN Done(AddError(hh, "Conflicting cloud-init configuration"))
                 ELSE [hh EXCEPT !.pc = "launch"]
    /\ UNCHANGED <<vm, tfInstance, lifeRest, cacheVars>>

\* A Create that goes on after a failed launch.
CreateAfterLaunchAnyway(hh) ==
    IF hh.plan.Primary
    THEN [hh EXCEPT !.pc = "setprimary"]
    ELSE [hh EXCEPT !.pc = "refresh"]

\* Create after LaunchInstance returned: the error return, then
\* "if opts.Primary".
CreateAfterLaunch(hh) ==
    IF hh.err # NilErr
    THEN Done(AddError(hh, "Failed to launch instance"))
    ELSE IF hh.plan.Primary
         THEN [hh EXCEPT !.pc = "setprimary"]
         ELSE [hh EXCEPT !.pc = "refresh"]

\* r.client.LaunchInstance(ctx, opts), which clears the instance slot on
\* success.
CreateLaunch ==
    /\ h.fn = "Create" /\ h.pc = "launch"
    /\ \E reply \in LaunchReplies(vm, TheName) :
         LET err == run(reply.res)
             hh == Ran(h, "launch", err)
         IN /\ vm' = reply.vm
            /\ cache' = IF err = NilErr THEN invalidate(cache, "instanceCache") ELSE cache
            /\ h' = CreateAfterLaunch(hh)
    /\ UNCHANGED <<tfInstance, lifeRest, lifeCache>>

\* r.client.SetPrimary(ctx, opts.Name): a failure is a warning.
CreateSetPrimary ==
    /\ h.fn = "Create" /\ h.pc = "setprimary"
    /\ \E res \in {Success, Overrun, Failure} :
         LET err == SetPrimary(TheName, res)
             hh == [Ran(h, "set", err) EXCEPT !.pc = "refresh"]
         IN h' = IF err # NilErr THEN AddWarning(hh, "Failed to set primary") ELSE hh
    /\ UNCHANGED <<vm, tfInstance, lifeRest, cacheVars>>

\* refreshState(ctx, opts.Name, &plan); resp.State.Set(ctx, &plan)
CreateRefresh ==
    /\ h.fn = "Create" /\ h.pc = "refresh"
    /\ \E reply \in InfoReplies(vm, TheName) :
         LET f == Fetched(h, reply)
             hh == [f EXCEPT !.errs = Append(@, f.err)]
         IN IF hh.err # NilErr
            THEN /\ h' = Done(AddError(hh, "Failed to refresh instance state"))
                 /\ UNCHANGED tfInstance
            ELSE /\ h' = Done(hh)
                 /\ tfInstance' = [tfInstance EXCEPT !.present = TRUE,
                                                     !.State = hh.inst.State,
                                                     !.Mounts = h.plan.Mounts,
                                                     !.Primary = h.plan.Primary]
    /\ UNCHANGED <<vm, lifeRest, cacheVars>>

\* A purge that is issued whatever the delete command returned.
PurgeFollowsAlways(e, purge) == purge

\* client.DeleteInstance(ctx, name, purge) after its delete command, whose
\* error was e: the purge is the next step when purge is set and e is nil.
PurgeFollows(e, purge) == e = NilErr /\ purge

\* instanceResource.Delete reports the error of DeleteInstance unless it is
\* multipasscli.ErrNotFound.
InstanceDeleteFails(err) == err # NilErr /\ ~(err = ErrNotFound)

\* The return of instanceResource.Delete with the error of DeleteInstance;
\* the framework drops the resource unless an error was reported.
InstanceDeleteSettle(hh) ==
    IF InstanceDeleteFails(hh.err)
    THEN /\ h' = Done(AddError(hh, "Failed to delete instance"))
         /\ UNCHANGED tfInstance
    ELSE /\ h' = Done([hh EXCEPT !.removed = TRUE])
         /\ tfInstance' = [tfInstance EXCEPT !.present = FALSE]

InstanceDeleteBegin ==
    /\ HandlerFree
    /\ tfInstance.present
    /\ h' = [IdleH EXCEPT !.fn = "Delete", !.pc = "delete"]
    /\ UNCHANGED <<vm, tfInstance, lifeRest, cacheVars>>

\* DeleteInstance: c.runSimple(ctx, "delete", name)
InstanceDelete ==
    /\ h.fn = "Delete" /\ h.pc = "delete"
    /\ \E reply \in DeleteReplies(vm, TheName) :
         LET hh == Ran(h, "delete", run(reply.res))
         IN /\ vm' = reply.vm
            /\ IF PurgeFollows(hh.err, TRUE)
               THEN /\ h' = [hh EXCEPT !.pc = "purge"]
                    /\ UNCHANGED tfInstance
               ELSE InstanceDeleteSettle(hh)
    /\ UNCHANGED <<lifeRest, cacheVars>>

\* DeleteInstance: c.runSimple(ctx, "purge"), then invalidateInstances.
InstancePurge ==
    /\ h.fn = "Delete" /\ h.pc = "purge"
    /\ \E reply \in PurgeReplies(vm) :
         LET hh == Ran(h, "purge", run(reply.res))
         IN /\ vm' = reply.vm
            /\ cache' = IF hh.err = NilErr
                        THEN invalidate(cache, "instanceCache") ELSE cache
            /\ InstanceDeleteSettle(hh)
    /\ UNCHANGED <<lifeRest, lifeCache>>

(***************************************************************************)
(* client.run as a function of the process outcome                         *)
(***************************************************************************)
\* Argument vectors of the model.
RunArgs == {<<"purge">>, <<"info", "vm">>}

\* What a process can have written to stdout.
RunStdouts == {<<>>, <<"ok">>, <<" ", "ok", " ">>}

\* What a process can have written to stderr, with white space around it.
RunStderrs ==
    Stderrs \cup {<<" ", "snapshot", "not", "found", " ">>, <<" ", "command", "failed">>}

\* The processes cmd.Run can have run: it returned nil, or an exit error or
\* the kill that follows a context that is done; a context is done because
\* its deadline passed or because the caller cancelled it.
RunProcs ==
    {[ok |-> TRUE, ctxErr |-> c, stdout |-> o, stderr |-> e, runErr |-> NilErr] :
        c \in {"nil", "DeadlineExceeded"}, o \in RunStdouts, e \in {<<>>}}
    \cup
    {[ok |-> FALSE, ctxErr |-> "nil", stdout |-> o, stderr |-> e, runErr |-> "exit status 1"] :
        o \in RunStdouts, e \in RunStderrs}
    \cup
    {[ok |-> FALSE, ctxErr |-> c, stdout |-> o, stderr |-> e, runErr |-> "signal: killed"] :
        c \in {"DeadlineExceeded", "Canceled"}, o \in RunStdouts, e \in RunStderrs}

RunInit ==
    \E a \in RunArgs, p \in RunProcs :
        fx = [fn |-> "run", done |-> FALSE, args |-> a, proc |-> p,
              result |-> [out |-> NoBytes, err |-> NilErr, detail |-> NoDetail]]

\* out, err := c.run(ctx, args...)
RunCmd ==
    /\ fx.fn = "run" /\ ~fx.done
    /\ fx' = [fx EXCEPT !.done = TRUE, !.result = runCmd(fx.args, fx.proc)]
    /\ UNCHANGED <<cacheVars, vm, mounted, aliasExt, aliasDef, snapshotExt, tfInstance,
                   tfAlias, tfSnapshot, h, diff>>

(***************************************************************************)
(* fileDownloadResource.writeDirectoryFromTar                              *)
(***************************************************************************)
\* An archive holds at most MaxEntries entries.
MaxEntries == 2

\* Entry names, as sequences of path elements.
TarNames ==
    { <<"d">>, <<"d", "a">>, <<"d", "..", "b">>, <<"a..b">>, <<".">>,
      <<"..", "..", "etc", "passwd">>, <<"d", "..", "..", "x">> }

\* tar.TypeDir, tar.TypeReg and every other type flag.
TarTypes == {"TypeDir", "TypeReg", "TypeSymlink"}

TarEntries == [Name : TarNames, Typeflag : TarTypes]

\* filepath.Clean of a relative path: "." elements go, "x/.." pairs go, and
\* the ".." elements that are left lead the path.
RECURSIVE CleanOnto(_, _)
CleanOnto(stack, rest) ==
    IF rest = <<>> THEN stack
    ELSE LET e == Head(rest) IN
         IF e = "." THEN CleanOnto(stack, Tail(rest))
         ELSE IF e = ".." /\ stack # <<>> /\ stack[Len(stack)] # ".."
              THEN CleanOnto(SubSeq(stack, 1, Len(stack) - 1), Tail(rest))
              ELSE CleanOnto(Append(stack, e), Tail(rest))

Clean(name) == CleanOnto(<<>>, name)

\* strings.Contains(cleanName, ".."): a path element holds two dots in a row.
HasDotDot(name) == \E i \in 1 .. Len(name) : name[i] \in {"..", "a..b"}

\* The destination root, cleaned, as path elements.
DestRoot == <<"out">>

\* p lies below the directory root: strings.HasPrefix(p, root + separator).
Below(p, root) == Len(p) > Len(root) /\ SubSeq(p, 1, Len(root)) = root

\* sanitizeExtractPath(destPrefix, name)
sanitizeExtractPath(root, name) ==
    LET cleanName == Clean(name)
        target == Clean(root \o cleanName)
    IN IF HasDotDot(cleanName)
       THEN [target |-> <<>>, err |-> "contains parent directory traversal"]
       ELSE IF ~Below(target, root)
            THEN [target |-> <<>>, err |-> "escapes destination"]
            ELSE [target |-> target, err |-> NilErr]

\* The archive lists of the model.
TarArchives == ListsOf(TarEntries, MaxEntries)

TarInit ==
    \E ar \in TarArchives, dest \in {"absent", "dir", "file"}, ow \in BOOLEAN :
        fx = [fn |-> "tar", done |-> FALSE, pc |-> "stat", archive |-> ar,
              dest |-> dest, overwrite |-> ow, i |-> 1, written |-> {},
              err |-> NilErr]

\* The return of writeDirectoryFromTar with an error diagnostic.
TarFail(summary) == [fx EXCEPT !.done = TRUE, !.pc = "done", !.err = summary]

tarRest == <<cacheVars, vm, mounted, aliasExt, aliasDef, snapshotExt, tfInstance,
             tfAlias, tfSnapshot, h, diff>>

\* os.Stat(dest), os.RemoveAll(dest) and ensureParentDir(dest, ...).
TarPrepare ==
    /\ fx.fn = "tar" /\ fx.pc = "stat"
    /\ \E ok \in BOOLEAN :
         fx' = IF fx.dest = "file" THEN TarFail("Destination exists")
               ELSE IF fx.dest = "dir" /\ ~fx.overwrite THEN TarFail("Destination exists")
               ELSE IF fx.dest = "dir" /\ ~ok THEN TarFail("Failed to clean destination")
               ELSE IF ~ok THEN TarFail("Failed to prepare destination")
               ELSE [fx EXCEPT !.pc = "next", !.dest = "absent"]
    /\ UNCHANGED tarRest

\* One turn of the loop: tr.Next(), sanitizeExtractPath, and the write of
\* the entry, which the filesystem can refuse.
TarEntry ==
    /\ fx.fn = "tar" /\ fx.pc = "next"
    /\ \E ok \in BOOLEAN :
         fx' = IF fx.i > Len(fx.archive)
               THEN [fx EXCEPT !.done = TRUE, !.pc = "done"]
               ELSE LET hdr == fx.archive[fx.i]
                        p == sanitizeExtractPath(DestRoot, hdr.Name)
                    IN IF p.err # NilErr THEN TarFail("Invalid archive entry")
                       ELSE IF hdr.Typeflag \notin {"TypeDir", "TypeReg"}
                            THEN TarFail("Unsupported archive entry")
                       ELSE IF ~ok
                            THEN TarFail(IF hdr.Typeflag = "TypeDir"
                                         THEN "Failed to create directory"
                                         ELSE "Failed to create file")
                       ELSE [fx EXCEPT !.i = @ + 1, !.written = @ \cup {p.target}]
    /\ UNCHANGED tarRest

(***************************************************************************)
(* hashDirectory and walkDirectory                                         *)
(***************************************************************************)
\* A tree holds at most MaxFiles regular files.
MaxFiles == 2

Contents == {"one", "two"}

\* hashFile: the hex digest of the content.  The element "h1" stands for the
\* 64 hexadecimal characters of the digest of "one", "h2" for those of "two".
HexOf == [one |-> "h1", two |-> "h2"]
hashFile(content) == <<HexOf[content]>>

\* File names, as sequences of elements: a name can hold the characters of
\* a digest.  The one directory name of the model is "n".
FileNames == { <<"h1", "z", "h1">>, <<"z", "h1">>, <<"h1", "z">>, <<"z">> }
DirName == <<"n">>

\* The byte order of the elements: '/' sorts before the hexadecimal
\* characters, which sort before the letters 'n' and 'z'.
Rank(t) ==
    CASE t = "/" -> 0 [] t = "h1" -> 1 [] t = "h2" -> 2 [] t = "n" -> 3 [] t = "z" -> 4

\* entries[i].Name() < entries[j].Name()
NameLess(a, b) ==
    \E i \in 1 .. Len(b) :
        /\ \A j \in 1 .. (i - 1) : j <= Len(a) /\ a[j] = b[j]
        /\ \/ i = Len(a) + 1
           \/ i <= Len(a) /\ Rank(a[i]) < Rank(b[i])

FileNode(name, content) ==
    [Name |-> name, IsDir |-> FALSE, Content |-> content, Children |-> {}]
DirNode(name, children) ==
    [Name |-> name, IsDir |-> TRUE, Content |-> "", Children |-> children]

FileNodes == {FileNode(n, c) : n \in FileNames, c \in Contents}

\* The sets of files one directory can hold: names are unique in it.
FileSets ==
    {S \in SUBSET FileNodes :
        /\ Cardinality(S) <= MaxFiles
        /\ \A f, g \in S : f.Name = g.Name => f = g}

\* The trees of the model: files at the root and, or not, one directory
\* with files of its own.
Trees ==
    {R \cup D : R \in FileSets,
                D \in {{}} \cup {{DirNode(DirName, K)} : K \in FileSets}}

FilesIn(tree) ==
    Cardinality({f \in tree : ~f.IsDir})
        + (IF \E d \in tree : d.IsDir
           THEN Cardinality((CHOOSE d \in tree : d.IsDir).Children) ELSE 0)

Perms(S) ==
    {p \in [1 .. Cardinality(S) -> S] : \A i, j \in DOMAIN p : i # j => p[i] # p[j]}

\* os.ReadDir, level by level: the entries of a directory in any order.
RECURSIVE ReadDir(_)
Listed(n) ==
    IF n.IsDir THEN {[n EXCEPT !.Children = c] : c \in ReadDir(n.Children)}
    ELSE {[n EXCEPT !.Children = <<>>]}
ReadDir(S) ==
    UNION { {q \in [DOMAIN p -> UNION {Listed(p[i]) : i \in DOMAIN p}] :
                \A i \in DOMAIN p : q[i] \in Listed(p[i])} : p \in Perms(S) }

\* sort.Slice(entries, by name)
RECURSIVE SortByName(_)
SortByName(entries) ==
    IF entries = <<>> THEN <<>>
    ELSE LET i == CHOOSE i \in DOMAIN entries :
                    \A j \in DOMAIN entries \ {i} :
                        NameLess(entries[i].Name, entries[j].Name)
         IN <<entries[i]>>
                \o SortByName(SubSeq(entries, 1, i - 1)
                                \o SubSeq(entries, i + 1, Len(entries)))

\* walkDirectory(root, current, h): what it writes to h.
RECURSIVE walkDirectory(_, _)
RECURSIVE walkEntries(_, _)
walkEntries(current, entries) ==
    IF entries = <<>> THEN <<>>
    ELSE LET entry == Head(entries)
             rel == IF current = <<>> THEN entry.Name
                    ELSE current \o <<"/">> \o entry.Name
         IN rel \o (IF entry.IsDir THEN walkDirectory(rel, entry.Children)
                    ELSE hashFile(entry.Content))
                \o walkEntries(current, Tail(entries))
walkDirectory(current, listing) == walkEntries(current, SortByName(listing))

\* hashDirectory(root): SHA-256 of what walkDirectory wrote; the digest is
\* kept as the bytes it was taken of.
hashDirectory(listing) == [sha256 |-> walkDirectory(<<>>, listing)]

NoDigest == [sha256 |-> <<"none">>]

\* One file f of the directory S replaced by g.
ChangeIn(S, f, g) == (S \ {f}) \cup {g}

\* The rewrites of one file (kind "content") and the renamings of one file
\* to a name that is free in its directory (kind "rename").
FileEdits(S, kind) ==
    {e \in {f \in S : ~f.IsDir} \X FileNodes :
        IF kind = "content"
        THEN e[2].Name = e[1].Name /\ e[2].Content # e[1].Content
        ELSE /\ e[2].Content = e[1].Content
             /\ \A n \in S : n.Name # e[2].Name}

DirEdits(S, kind) == {ChangeIn(S, e[1], e[2]) : e \in FileEdits(S, kind)}

Edits(tree, kind) ==
    DirEdits(tree, kind)
        \cup UNION { {ChangeIn(tree, d, [d EXCEPT !.Children = K]) :
                        K \in DirEdits(d.Children, kind)} :
                    d \in {n \in tree : n.IsDir} }

HashInit ==
    \E tree \in {t \in Trees : FilesIn(t) <= MaxFiles} :
        fx = [fn |-> "hash", done |-> FALSE, pc |-> "first", tree |-> tree,
              before |-> tree, change |-> "none", d1 |-> NoDigest,
              d2 |-> NoDigest]

\* hashPath(dir, true) on the tree as it is.
HashFirst ==
    /\ fx.fn = "hash" /\ fx.pc = "first"
    /\ \E l \in ReadDir(fx.tree) :
         fx' = [fx EXCEPT !.d1 = hashDirectory(l), !.pc = "change"]
    /\ UNCHANGED tarRest

\* The tree is left as it is.
HashKeep ==
    /\ fx.fn = "hash" /\ fx.pc = "change"
    /\ fx' = [fx EXCEPT !.pc = "second"]
    /\ UNCHANGED tarRest

\* One file is written with another content.
HashWrite ==
    /\ fx.fn = "hash" /\ fx.pc = "change"
    /\ \E t \in Edits(fx.tree, "content") :
         fx' = [fx EXCEPT !.pc = "second", !.tree = t, !.change = "content"]
    /\ UNCHANGED tarRest

\* One file is renamed.
HashRename ==
    /\ fx.fn = "hash" /\ fx.pc = "change"
    /\ \E t \in Edits(fx.tree, "rename") :
         fx' = [fx EXCEPT !.pc = "second", !.tree = t, !.change = "rename"]
    /\ UNCHANGED tarRest

\* hashPath(dir, true) again.
HashSecond ==
    /\ fx.fn = "hash" /\ fx.pc = "second"
    /\ \E l \in ReadDir(fx.tree) :
         fx' = [fx EXCEPT !.d2 = hashDirectory(l), !.pc = "done", !.done = TRUE]
    /\ UNCHANGED tarRest

(***************************************************************************)
(* client.CreateSnapshot: the name read from the command output            *)
(***************************************************************************)
\* The output of the command holds at most MaxOut characters.
MaxOut == 4

\* Characters of the output: colon, dot, white space and two letters.
OutChars == {":", ".", " ", "a", "b"}

\* The names a caller asks for: one name, or none.
AskedNames == {<<"a", "b">>, <<>>}

\* parts[len(parts)-1] of strings.Split(line, ":")
LastPart(line) ==
    LET colons == {i \in 1 .. Len(line) : line[i] = ":"}
    IN IF colons = {} THEN line
       ELSE SubSeq(line, (CHOOSE i \in colons : \A j \in colons : j <= i) + 1,
                   Len(line))

\* strings.Index(last, "."), counted from 1; 0 when there is no dot.
IndexDot(last) ==
    LET dots == {i \in 1 .. Len(last) : last[i] = "."}
    IN IF dots = {} THEN 0 ELSE CHOOSE i \in dots : \A j \in dots : i <= j

\* strings.LastIndex(last, "."), counted from 1; 0 when there is no dot.
LastIndexDot(last) ==
    LET dots == {i \in 1 .. Len(last) : last[i] = "."}
    IN IF dots = {} THEN 0 ELSE CHOOSE i \in dots : \A j \in dots : j <= i

\* A reading of the name that cuts at the last dot.
snapshotNameLastDot(out, name) ==
    LET line == TrimSpace(out)
        last == TrimSpace(LastPart(line))
        dot == LastIndexDot(last)
    IN IF line = <<>> THEN name
       ELSE IF last = <<>> THEN name
       ELSE IF dot # 0 /\ dot < Len(last) THEN SubSeq(last, dot + 1, Len(last))
       ELSE name

\* client.CreateSnapshot after run returned out without error.
snapshotName(out, name) ==
    LET line == TrimSpace(out)
        last == TrimSpace(LastPart(line))
        dot == IndexDot(last)
    IN IF line = <<>> THEN name
       ELSE IF last = <<>> THEN name
       ELSE IF dot # 0 /\ dot < Len(last) THEN SubSeq(last, dot + 1, Len(last))
       ELSE name

SnapNameInit ==
    \E out \in ListsOf(OutChars, MaxOut), name \in AskedNames :
        fx = [fn |-> "snapshotName", done |-> FALSE, out |-> out,
              name |-> name, result |-> <<>>]

SnapNameRead ==
    /\ fx.fn = "snapshotName" /\ ~fx.done
    /\ fx' = [fx EXCEPT !.done = TRUE, !.result = snapshotName(fx.out, fx.name)]
    /\ UNCHANGED tarRest

(***************************************************************************)
(* sanitizeIPs and the two toModel conversions that call it                *)
(***************************************************************************)
\* An address list of a payload holds at most MaxIPs entries.
MaxIPs == 2

\* Entries of an "ipv4" array: a text is a sequence of words in which " "
\* stands for white space.
IPValues ==
    { <<>>, <<" ">>, <<"10.0.0.2">>, <<" ", "10.0.0.2">>, <<"10.0.0.3", " ">>,
      <<"N/A">>, <<"n/a">>, <<" ", "N/a">> }

\* A test that compares with "N/A" letter for letter.
dropIPExact(v) == v = <<>> \/ v = <<"N/A">>

\* sanitizeIPs: v == "" || strings.EqualFold(v, "N/A"), v trimmed
dropIP(v) == v = <<>> \/ (Len(v) = 1 /\ EqualFold(v[1], "N/A"))

\* sanitizeIPs(values)
RECURSIVE sanitizeIPs(_)
sanitizeIPs(values) ==
    IF values = <<>> THEN <<>>
    ELSE LET v == TrimSpace(Head(values))
         IN IF dropIP(v) THEN sanitizeIPs(Tail(values))
            ELSE <<v>> \o sanitizeIPs(Tail(values))

\* listResponse.toModel(): of the fields of an entry, the name, the state and
\* the addresses.
listToModel(list) ==
    [i \in DOMAIN list |->
        [Name |-> list[i].Name, State |-> list[i].State,
         IPv4 |-> sanitizeIPs(list[i].IPv4)]]

\* infoResponse.toModel(name) with the addresses of the entry.
infoToModel(info, name) ==
    LET r == toModel([n \in DOMAIN info |-> info[n].State], name)
    IN IF r.err # NilErr THEN r
       ELSE [r EXCEPT !.inst = [State |-> r.inst.State,
                                IPv4 |-> sanitizeIPs(info[name].IPv4)]]

IPsInit ==
    \E values \in ListsOf(IPValues, MaxIPs) :
        fx = [fn |-> "sanitizeIPs", done |-> FALSE, values |-> values,
              via |-> "none", result |-> <<>>]

\* A "multipass list" payload with one entry is converted.
IPsOfList ==
    /\ fx.fn = "sanitizeIPs" /\ ~fx.done
    /\ LET list == <<[Name |-> TheName, State |-> "Running", IPv4 |-> fx.values]>>
       IN fx' = [fx EXCEPT !.done = TRUE, !.via = "list",
                           !.result = listToModel(list)[1].IPv4]
    /\ UNCHANGED tarRest

\* A "multipass info" payload with the entry of the name is converted.
IPsOfInfo ==
    /\ fx.fn = "sanitizeIPs" /\ ~fx.done
    /\ LET info == [n \in {TheName} |-> [State |-> "Running", IPv4 |-> fx.values]]
       IN fx' = [fx EXCEPT !.done = TRUE, !.via = "info",
                           !.result = infoToModel(info, TheName).inst.IPv4]
    /\ UNCHANGED tarRest

(***************************************************************************)
(* cloneInstances, cloneImages, cloneNetworks, cloneAliases                *)
(***************************************************************************)
\* A list of the external tool holds at most MaxItems elements.
MaxItems == 2

\* The slice fields of an element: models.Instance has IPv4 and Mounts (and
\* Load), models.Image has Aliases, models.Network and models.Alias none.
SliceFields(k) ==
    CASE k = "instanceCache" -> {"IPv4", "Mounts"}
      [] k = "imageCache" -> {"Aliases"}
      [] OTHER -> {}

\* An element of a list: its scalar fields (of which Name stands for all)
\* and, for each slice field, the backing array the slice header points to.
ElementOf(k, i) ==
    [Name |-> "name", refs |-> [f \in SliceFields(k) |-> <<i, f>>]]

\* The backing arrays a list of n elements of kind k points to.
BackingOf(k, n) == (1 .. n) \X SliceFields(k)

\* out := make([]T, len(in)); copy(out, in): a new array at dst that holds
\* the elements of the array at src, slice headers included.
cloneTo(arrays, src, dst) == [arrays EXCEPT ![dst] = [i \in DOMAIN arrays[src] |-> arrays[src][i]]]

\* What a reader of the list at an address sees, slices followed.
Seen(f, at) ==
    [i \in DOMAIN f.arrays[at] |->
        [Name |-> f.arrays[at][i].Name,
         slices |-> [g \in DOMAIN f.arrays[at][i].refs |->
                        f.backing[f.arrays[at][i].refs[g]]]]]

\* The decoded payload of a list query, or the entry an earlier call stored.
CloneInit ==
    \E k \in Kinds, n \in 1 .. MaxItems, start \in {"miss", "hit"} :
        LET elems == [i \in 1 .. n |-> ElementOf(k, i)]
            f0 == [fn |-> "clone", done |-> FALSE, pc |-> start, kind |-> k,
                   arrays |-> [cache |-> IF start = "hit" THEN elems ELSE <<>>,
                               payload |-> IF start = "miss" THEN elems ELSE <<>>,
                               first |-> <<>>, later |-> <<>>],
                   backing |-> [a \in BackingOf(k, n) |-> <<"entry">>],
                   orig |-> <<>>, writes |-> 0]
        IN fx = [f0 EXCEPT !.orig = Seen(f0, IF start = "hit" THEN "cache" ELSE "payload")]

\* A list call that missed: c.<kind>Cache = newCacheEntry(value, cacheTTL)
\* and return clone(value).
CloneStored ==
    /\ fx.fn = "clone" /\ fx.pc = "miss"
    /\ fx' = [fx EXCEPT !.pc = "caller",
                        !.arrays = cloneTo([@ EXCEPT !.cache = fx.arrays.payload],
                                           "payload", "first")]
    /\ UNCHANGED tarRest

\* A list call that hit: return clone(c.<kind>Cache.value).
CloneCached ==
    /\ fx.fn = "clone" /\ fx.pc = "hit"
    /\ fx' = [fx EXCEPT !.pc = "caller", !.arrays = cloneTo(@, "cache", "first")]
    /\ UNCHANGED tarRest

\* The caller assigns to a field of an element of the list it was given.
CallerSetsField ==
    /\ fx.fn = "clone" /\ fx.pc = "caller" /\ fx.writes < MaxItems
    /\ \E i \in DOMAIN fx.arrays.first :
         fx' = [fx EXCEPT !.arrays.first[i].Name = "written", !.writes = @ + 1]
    /\ UNCHANGED tarRest

\* The caller assigns to an entry of a slice of an element of that list.
CallerSetsEntry ==
    /\ fx.fn = "clone" /\ fx.pc = "caller" /\ fx.writes < MaxItems
    /\ \E i \in DOMAIN fx.arrays.first :
         \E g \in DOMAIN fx.arrays.first[i].refs :
            fx' = [fx EXCEPT !.backing[fx.arrays.first[i].refs[g]][1] = "written",
                             !.writes = @ + 1]
    /\ UNCHANGED tarRest

\* A later list call that hits: return clone(c.<kind>Cache.value).
CloneCachedLater ==
    /\ fx.fn = "clone" /\ fx.pc = "caller"
    /\ fx' = [fx EXCEPT !.pc = "done", !.done = TRUE,
                        !.arrays = cloneTo(@, "cache", "later")]
    /\ UNCHANGED tarRest

(***************************************************************************)
(* Client operations without a cache slot: SetPrimary, CreateSnapshot,     *)
(* DeleteSnapshot                                                          *)
(***************************************************************************)
PlainOps == {"SetPrimary", "CreateSnapshot", "DeleteSnapshot"}

\* The argument lists: <<name>> for SetPrimary, <<instance, name>> for the
\* snapshot operations.
PlainArgs(fn) ==
    IF fn = "SetPrimary" THEN {<<n>> : n \in Strs}
    ELSE {<<i, n>> : i \in Strs, n \in Strs}

\* A caller enters one of the operations; a rejected argument returns before
\* any command.
CallPlain(p) ==
    /\ Free(p)
    /\ \E fn \in PlainOps :
         \E a \in PlainArgs(fn) :
           /\ op' = [op EXCEPT ![p] = [fn |-> fn, kind |-> "none", refresh |-> FALSE,
                                       args |-> a, purge |-> FALSE]]
           /\ IF Rejected(fn, a)
              THEN Return(p, ValidationErr, -1)
              ELSE /\ pc' = [pc EXCEPT ![p] = "plain"]
                   /\ ret' = [ret EXCEPT ![p] = NoRet]
    /\ hist' = [hist EXCEPT ![p] = NoHist]
    /\ UNCHANGED <<scope, now, mu, cache, ext, mutVer, storedBy, payload>>
    /\ UNCHANGED resVars

\* c.runSimple(ctx, "set", arg) or c.run(ctx, "snapshot" | "delete", ...) and
\* the return of its error; no slot is invalidated.
PlainRun(p) ==
    /\ pc[p] = "plain"
    /\ \E res \in ProcResults : Return(p, run(res), -1)
    /\ hist' = [hist EXCEPT ![p].ran = @ + 1]
    /\ UNCHANGED <<scope, now, mu, cache, ext, mutVer, storedBy, op, payload>>
    /\ UNCHANGED resVars

(***************************************************************************)
(* fileDownloadResource.downloadWithTar and fetchDirectoryTar              *)
(***************************************************************************)
\* time.Now().UnixNano() takes one of MaxNano values.
MaxNano == 2

\* The source attribute, cleaned, as path elements; <<>> is the empty string.
DownloadSources == {<<>>, <<"d">>, <<"home", "d">>}

\* path.Dir(clean), with "." replaced by "/", and path.Base(clean).
baseDirOf(src) == IF Len(src) <= 1 THEN <<"/">> ELSE SubSeq(src, 1, Len(src) - 1)
targetOf(src) == src[Len(src)]

\* fmt.Sprintf("/tmp/multipass-download-%d.tar", time.Now().UnixNano())
tmpTarOf(nano) == <<"/tmp/multipass-download", nano>>

\* createCmd and the deferred removal.
createCmd(src, tmpTar) == [cmd |-> "tar", dir |-> baseDirOf(src), path |-> tmpTar,
                           target |-> targetOf(src)]
removeCmd(tmpTar) == [cmd |-> "rm", dir |-> <<>>, path |-> tmpTar, target |-> ""]
transferCmd(src) == [cmd |-> "transfer", dir |-> <<>>, path |-> src, target |-> "-"]

\* Outcomes of client.Exec and client.TransferCapture: the error returned,
\* and whether the command left its file on the instance.
ExecReplies == {[err |-> NilErr, left |-> TRUE], [err |-> CLIError, left |-> TRUE],
                [err |-> CLIError, left |-> FALSE], [err |-> TimeoutErr, left |-> TRUE]}

DownloadInit ==
    \E inst \in {"", TheName}, src \in DownloadSources, rec \in BOOLEAN,
       nano \in 1 .. MaxNano :
        fx = [fn |-> "download", done |-> FALSE, pc |-> "begin", instance |-> inst,
              source |-> src, recursive |-> rec, nano |-> nano, cmds |-> <<>>,
              remote |-> {}, err |-> NilErr]

\* A return with an error diagnostic.
DownloadFail(f, summary) == [f EXCEPT !.done = TRUE, !.pc = "done", !.err = summary]

\* downloadWithTar: the branch on recursive, and the validation at the head
\* of fetchDirectoryTar.
DownloadBegin ==
    /\ fx.fn = "download" /\ fx.pc = "begin"
    /\ fx' = IF ~fx.recursive THEN [fx EXCEPT !.pc = "file"]
             ELSE IF fx.instance = "" \/ fx.source = <<>>
                  THEN DownloadFail(fx, "Invalid configuration")
                  ELSE [fx EXCEPT !.pc = "archive"]
    /\ UNCHANGED tarRest

\* fetchDirectoryTar: r.client.Exec(ctx, instance, createCmd); the removal
\* is deferred only after it returned nil.
DownloadArchive ==
    /\ fx.fn = "download" /\ fx.pc = "archive"
    /\ \E reply \in ExecReplies :
         LET tmpTar == tmpTarOf(fx.nano)
             f == [fx EXCEPT !.cmds = Append(@, createCmd(fx.source, tmpTar)),
                             !.remote = IF reply.left THEN @ \cup {tmpTar} ELSE @]
         IN fx' = IF reply.err # NilErr
                  THEN DownloadFail(f, "Failed to archive remote directory")
                  ELSE [f EXCEPT !.pc = "transfer"]
    /\ UNCHANGED tarRest

\* fetchDirectoryTar: r.client.TransferCapture of the archive, and on return
\* the deferred r.client.Exec(ctx, instance, rm -f tmpTar), whose error is
\* dropped.
DownloadTransfer ==
    /\ fx.fn = "download" /\ fx.pc = "transfer"
    /\ \E reply \in ExecReplies, removal \in ExecReplies :
         LET tmpTar == tmpTarOf(fx.nano)
             f == [fx EXCEPT !.cmds = @ \o <<transferCmd(tmpTar), removeCmd(tmpTar)>>,
                             !.remote = IF removal.err = NilErr THEN @ \ {tmpTar} ELSE @]
         IN fx' = IF reply.err # NilErr
                  THEN DownloadFail(f, "Failed to download archive")
                  ELSE [f EXCEPT !.pc = "extract"]
    /\ UNCHANGED tarRest

\* downloadWithTar: writeDirectoryFromTar(archiveData, dest, model)
DownloadExtract ==
    /\ fx.fn = "download" /\ fx.pc = "extract"
    /\ \E summary \in {NilErr, "Invalid archive entry", "Failed to create file"} :
         fx' = IF summary # NilErr THEN DownloadFail(fx, summary)
               ELSE [fx EXCEPT !.pc = "hash"]
    /\ UNCHANGED tarRest

\* downloadWithTar: hashDirectory(dest) and the return.
DownloadHash ==
    /\ fx.fn = "download" /\ fx.pc = "hash"
    /\ \E ok \in BOOLEAN :
         fx' = IF ok THEN [fx EXCEPT !.done = TRUE, !.pc = "done"]
               ELSE DownloadFail(fx, "Failed to hash directory")
    /\ UNCHANGED tarRest

\* downloadWithTar without recursive: fetchFileBytes and writeFileBytes.
DownloadFile ==
    /\ fx.fn = "download" /\ fx.pc = "file"
    /\ \E reply \in ExecReplies, written \in BOOLEAN :
         fx' = IF fx.instance = "" \/ fx.source = <<>>
               THEN DownloadFail(fx, "Invalid configuration")
               ELSE LET f == [fx EXCEPT !.cmds = Append(@, transferCmd(fx.source))]
                    IN IF reply.err # NilErr
                       THEN DownloadFail(f, "Failed to download from instance")
                       ELSE IF ~written THEN DownloadFail(f, "Failed to write file")
                       ELSE [f EXCEPT !.done = TRUE, !.pc = "done"]
    /\ UNCHANGED tarRest

(***************************************************************************)
(* Specifications                                                          *)
(***************************************************************************)
vars == <<cacheVars, resVars>>

NoTracked == [present |-> FALSE, State |-> "nil", Mounts |-> <<>>, Primary |-> FALSE,
              AutoRecover |-> FALSE, AutoStartOnRecover |-> FALSE]

\* No resource is tracked and no handler runs.
ResIdle ==
    /\ vm = [n \in Names |-> "Absent"]
    /\ mounted = {}
    /\ aliasExt = FALSE /\ aliasDef = NoAliasDef
    /\ snapshotExt = FALSE
    /\ tfInstance = NoTracked
    /\ tfAlias = FALSE
    /\ tfSnapshot = FALSE
    /\ h = IdleH

\* The client was constructed and no call was made.
CacheIdle == CacheInit /\ scope = {"instanceCache"}

\* The client: one caller issuing list calls and mutations.
CacheStep(p) ==
    \/ CallList(p) \/ ListLock(p) \/ ListCheck(p) \/ ListQuery(p)
    \/ ListStoreLock(p) \/ ListStore(p)
    \/ CallMutation(p) \/ MutationRun(p) \/ DeletePurge(p)
    \/ InvalidateLock(p) \/ Invalidate(p)

Init == CacheInit /\ ResIdle /\ diff = NoDiff /\ fx = NoFx
Next == (\E p \in {1} : CacheStep(p)) \/ Tick
Spec == Init /\ [][Next]_vars

\* instanceResource.Read on an instance that was created with the resource
\* and changes outside Terraform between the reads.
ReadInit ==
    /\ CacheIdle
    /\ diff = NoDiff /\ fx = NoFx
    /\ vm = [n \in Names |-> "Running"]
    /\ mounted = {}
    /\ aliasExt = FALSE /\ aliasDef = NoAliasDef /\ snapshotExt = FALSE /\ tfAlias = FALSE /\ tfSnapshot = FALSE
    /\ \E ar \in BOOLEAN, as \in BOOLEAN :
         tfInstance = [NoTracked EXCEPT !.present = TRUE, !.State = "Running",
                                        !.AutoRecover = ar, !.AutoStartOnRecover = as]
    /\ h = IdleH
ReadNext ==
    \/ ReadBegin \/ ReadGet1 \/ ReadRecover1 \/ ReadGet2 \/ ReadStart1 \/ ReadGet3
    \/ ReadRecover2 \/ ReadGet4 \/ ReadStart2 \/ ReadGet5 \/ DriftInstance
    \/ HandlerReturn
SpecRead == ReadInit /\ [][ReadNext]_vars

\* instanceResource.Read on an instance that other users of the tool change
\* at any time, also between two commands of one Read.
ReadRaceNext == ReadNext \/ DriftDuringRead
SpecReadRace == ReadInit /\ [][ReadRaceNext]_vars

\* instanceResource.Delete and Create on one instance while the tool holds
\* a second instance, which its own users stop, start and soft-delete.
OtherName == "other"

DriftOther ==
    /\ HandlerFree
    /\ \E st \in VmStates \ {vm[OtherName]} : vm' = [vm EXCEPT ![OtherName] = st]
    /\ UNCHANGED <<h, tfInstance, restVars, cacheVars>>

PurgeInit ==
    /\ CacheIdle
    /\ diff = NoDiff /\ fx = NoFx
    /\ vm = [n \in {TheName, OtherName} |-> IF n = TheName THEN "Absent" ELSE "Running"]
    /\ mounted = {}
    /\ aliasExt = FALSE /\ aliasDef = NoAliasDef /\ snapshotExt = FALSE
    /\ tfAlias = FALSE /\ tfSnapshot = FALSE
    /\ tfInstance = NoTracked
    /\ h = IdleH
PurgeNext ==
    \/ CreateBegin \/ CreateLaunch \/ CreateSetPrimary \/ CreateRefresh
    \/ InstanceDeleteBegin \/ InstanceDelete \/ InstancePurge
    \/ DriftOther \/ HandlerReturn
SpecPurge == PurgeInit /\ [][PurgeNext]_vars

\* downloadWithTar applied to every configuration and outcome.
DownloadSpecInit == CacheIdle /\ ResIdle /\ diff = NoDiff /\ DownloadInit
DownloadNext ==
    \/ DownloadBegin \/ DownloadArchive \/ DownloadTransfer \/ DownloadExtract
    \/ DownloadHash \/ DownloadFile
SpecDownload == DownloadSpecInit /\ [][DownloadNext]_vars

\* One caller issuing alias list calls, alias mutations and the operations
\* without a cache slot.
ValidInit ==
    /\ CacheInit /\ scope = {"aliasCache"}
    /\ ResIdle /\ diff = NoDiff /\ fx = NoFx
ValidNext ==
    \/ \E p \in {1} :
          \/ CallList(p) \/ ListLock(p) \/ ListCheck(p) \/ ListQuery(p)
          \/ ListStoreLock(p) \/ ListStore(p)
          \/ CallMutation(p) \/ MutationRun(p)
          \/ InvalidateLock(p) \/ Invalidate(p)
          \/ CallPlain(p) \/ PlainRun(p)
    \/ Tick
SpecValid == ValidInit /\ [][ValidNext]_vars

\* One caller issuing list calls and power operations on instances.
PowerNext ==
    \/ \E p \in {1} :
          \/ CallList(p) \/ ListLock(p) \/ ListCheck(p) \/ ListQuery(p)
          \/ ListStoreLock(p) \/ ListStore(p) \/ CallPower(p) \/ PowerRun(p)
    \/ Tick
PowerInit == CacheIdle /\ ResIdle /\ diff = NoDiff /\ fx = NoFx
SpecPower == PowerInit /\ [][PowerNext]_vars

\* The copies a list call returns, written to by the caller.
CloneSpecInit == CacheIdle /\ ResIdle /\ diff = NoDiff /\ CloneInit
CloneNext ==
    CloneStored \/ CloneCached \/ CallerSetsField \/ CallerSetsEntry \/ CloneCachedLater
SpecClone == CloneSpecInit /\ [][CloneNext]_vars

\* Two callers sharing the client inside one TTL.
ConcNext == \E p \in Callers : CacheStep(p)
ConcInit ==
    /\ CacheInit /\ scope \in {{"instanceCache"}, {"aliasCache"}}
    /\ ResIdle /\ diff = NoDiff /\ fx = NoFx
SpecConc == ConcInit /\ [][ConcNext]_vars

\* aliasResource.Delete and snapshotResource.Delete on an alias and a
\* snapshot that come and go outside Terraform.
DeleteInit ==
    /\ CacheIdle
    /\ diff = NoDiff /\ fx = NoFx
    /\ vm = [n \in Names |-> "Stopped"]
    /\ mounted = {}
    /\ aliasExt = TRUE /\ aliasDef = AliasOf(<<"x", "x", "x">>) /\ snapshotExt = TRUE /\ tfAlias = TRUE /\ tfSnapshot = TRUE
    /\ tfInstance = NoTracked
    /\ h = IdleH
DeleteNext ==
    \/ AliasDeleteBegin \/ AliasDelete \/ SnapshotDeleteBegin \/ SnapshotDelete
    \/ AliasCreateBegin \/ AliasCreate \/ SnapshotImport
    \/ DriftAlias \/ DriftSnapshot \/ HandlerReturn
SpecDelete == DeleteInit /\ [][DeleteNext]_vars

\* instanceResource.Update on a running instance whose mounts change outside
\* Terraform between the updates.
UpdateInit ==
    /\ CacheIdle
    /\ diff = NoDiff /\ fx = NoFx
    /\ vm = [n \in Names |-> "Running"]
    /\ mounted = {}
    /\ aliasExt = FALSE /\ aliasDef = NoAliasDef /\ snapshotExt = FALSE /\ tfAlias = FALSE /\ tfSnapshot = FALSE
    /\ tfInstance = [NoTracked EXCEPT !.present = TRUE, !.State = "Running"]
    /\ h = IdleH
UpdateNext ==
    \/ UpdateBegin \/ UpdateSetPrimary \/ UpdateUnmount \/ UpdateMount
    \/ UpdateRefresh \/ DriftMounts \/ HandlerReturn
SpecUpdate == UpdateInit /\ [][UpdateNext]_vars

\* diffMounts applied to every pair of input lists.
DiffSpecInit == CacheIdle /\ ResIdle /\ DiffInit /\ fx = NoFx
DiffNext == DiffMounts
SpecDiff == DiffSpecInit /\ [][DiffNext]_vars

\* instanceResource.Create and instanceResource.Delete on an instance that
\* also changes outside Terraform between the handlers.
LifeInit == CacheIdle /\ ResIdle /\ diff = NoDiff /\ fx = NoFx
LifeNext ==
    \/ CreateBegin \/ CreateLaunch \/ CreateSetPrimary \/ CreateRefresh
    \/ InstanceDeleteBegin \/ InstanceDelete \/ InstancePurge
    \/ DriftInstance \/ HandlerReturn
SpecLife == LifeInit /\ [][LifeNext]_vars

\* aliasResource.Update, Create and Delete on an alias that also comes and
\* goes outside Terraform.
AliasNext ==
    \/ AliasUpdateBegin \/ AliasUpdate \/ AliasCreateBegin \/ AliasCreate
    \/ AliasDeleteBegin \/ AliasDelete \/ DriftAlias \/ HandlerReturn
SpecAlias == DeleteInit /\ [][AliasNext]_vars

\* snapshotResource.Create and Delete on an instance that is stopped and
\* started outside Terraform.
SnapshotInit ==
    /\ CacheIdle
    /\ diff = NoDiff /\ fx = NoFx
    /\ vm = [n \in Names |-> "Stopped"]
    /\ mounted = {}
    /\ aliasExt = FALSE /\ aliasDef = NoAliasDef /\ tfAlias = FALSE
    /\ snapshotExt = FALSE /\ tfSnapshot = FALSE
    /\ tfInstance = NoTracked
    /\ h = IdleH
SnapshotNext ==
    \/ SnapshotCreateBegin \/ SnapshotCreate \/ SnapshotDeleteBegin \/ SnapshotDelete
    \/ DriftSnapshot \/ DriftInstance \/ HandlerReturn
SpecSnapshot == SnapshotInit /\ [][SnapshotNext]_vars

\* client.run applied to every process outcome.
RunSpecInit == CacheIdle /\ ResIdle /\ diff = NoDiff /\ RunInit
RunNext == RunCmd
SpecRun == RunSpecInit /\ [][RunNext]_vars

\* writeDirectoryFromTar applied to every archive.
TarSpecInit == CacheIdle /\ ResIdle /\ diff = NoDiff /\ TarInit
TarNext == TarPrepare \/ TarEntry
SpecTar == TarSpecInit /\ [][TarNext]_vars

\* hashDirectory applied to every tree, before and after one change.
HashSpecInit == CacheIdle /\ ResIdle /\ diff = NoDiff /\ HashInit
HashNext == HashFirst \/ HashKeep \/ HashWrite \/ HashRename \/ HashSecond
SpecHash == HashSpecInit /\ [][HashNext]_vars

\* The name reading of client.CreateSnapshot applied to every output.
SnapNameSpecInit == CacheIdle /\ ResIdle /\ diff = NoDiff /\ SnapNameInit
SnapNameNext == SnapNameRead
SpecSnapName == SnapNameSpecInit /\ [][SnapNameNext]_vars

\* The two conversions applied to every address list.
IPsSpecInit == CacheIdle /\ ResIdle /\ diff = NoDiff /\ IPsInit
IPsNext == IPsOfList \/ IPsOfInfo
SpecIPs == IPsSpecInit /\ [][IPsNext]_vars


(***************************************************************************)
(* Properties of the client cache (specification Spec)                     *)
(***************************************************************************)
Mutations == {"LaunchInstance", "DeleteInstance", "CreateAlias", "DeleteAlias"}

\* A list call of caller p returned.
ListDone(p) == pc[p] = "done" /\ op[p].fn = "List"

\* C1: a list call with refresh=false that finds an unexpired entry in its
\* slot runs no external query and returns the value of that entry, so two
\* such calls inside the TTL run the query at most once.
C1_CachedWithinTTL ==
    \A p \in Callers :
        (ListDone(p) /\ ~op[p].refresh /\ hist[p].hit)
            => /\ ~hist[p].queried
               /\ hist[p].ran = 0
               /\ ret[p].err = NilErr
               /\ ret[p].value = hist[p].chkEntry.value

\* A second call with refresh=false was served, before the expiry, from the
\* entry a call with refresh=false had stored.
C1_Witness ==
    \E p \in Callers :
        /\ ListDone(p) /\ ~op[p].refresh /\ hist[p].hit
        /\ storedBy[op[p].kind] = "norefresh"
        /\ ~hist[p].queried
        /\ ret[p].value = cache[op[p].kind].value

\* C2: a list call with refresh=true returns only after it ran the external
\* query; when it returns a value the slot holds that value, which is the
\* tool's current payload, with expiry now + cacheTTL; when it returns an
\* error the slot is what it was when the call checked it.
C2_RefreshAlwaysQueries ==
    [][\A p \in Callers :
          (op[p].fn = "List" /\ op[p].refresh /\ pc[p] # "done" /\ pc'[p] = "done")
              => /\ hist'[p].queried
                 /\ IF ret'[p].err = NilErr
                    THEN /\ cache'[op[p].kind] =
                               [nil |-> FALSE, value |-> ret'[p].value,
                                expires |-> now + cacheTTL]
                         /\ ret'[p].value = ext[op[p].kind]
                    ELSE cache'[op[p].kind] = hist[p].chkEntry]_vars

\* A call with refresh=true found an unexpired entry, queried all the same
\* and replaced the entry by a different, newer payload.
C2_Witness ==
    \E p \in Callers :
        /\ ListDone(p) /\ op[p].refresh /\ hist[p].hit
        /\ hist[p].queried /\ ret[p].err = NilErr
        /\ cache[op[p].kind].value = ret[p].value
        /\ hist[p].chkEntry.value < ret[p].value

\* C3: with one caller, when a mutation has returned success the slot of its
\* kind is empty, and a list call with refresh=false that returns a value
\* returns a payload read after the last successful mutation of its kind.
C3_MutationInvalidates ==
    \A p \in Callers :
        /\ (pc[p] = "done" /\ op[p].fn \in Mutations /\ ret[p].err = NilErr)
               => cache[op[p].kind] = NoEntry
        /\ (ListDone(p) /\ ~op[p].refresh /\ ret[p].err = NilErr)
               => ret[p].value >= mutVer[op[p].kind]

\* A mutation returned success after it emptied a slot whose entry had not
\* expired.
C3_Witness ==
    \E p \in Callers :
        /\ pc[p] = "done" /\ op[p].fn \in Mutations /\ ret[p].err = NilErr
        /\ hist[p].chkEntry # NoEntry
        /\ now < hist[p].chkEntry.expires
        /\ cache[op[p].kind] = NoEntry


(***************************************************************************)
(* Properties of instanceResource.Read (specification SpecRead)            *)
(***************************************************************************)
ReadDone == h.fn = "Read" /\ h.pc = "done"

\* Read returned without an error diagnostic and wrote the fetched instance
\* to the tracked state.
ReadRecorded == ReadDone /\ h.errors = {} /\ ~h.removed

C5_AbsentIsRemoved ==
    (/\ ReadDone
     /\ h.first = ErrNotFound
     /\ \/ ~tfInstance.AutoRecover
        \/ "Failed to auto-recover instance" \in h.warnings)
        => /\ h.removed
           /\ ~tfInstance.present
           /\ h.errors = {}

\* A Read with auto_recover set found the instance absent, failed to recover
\* it and removed the resource with a warning only.
C5_Witness ==
    /\ ReadDone /\ h.first = ErrNotFound /\ tfInstance.AutoRecover
    /\ h.cmds = <<"info", "recover">>
    /\ "Failed to auto-recover instance" \in h.warnings
    /\ h.removed /\ ~tfInstance.present /\ h.errors = {}

\* The last reply of "multipass info" was a success whose well-formed info
\* map has no entry for the name asked for.
InfoWithoutEntry ==
    /\ h.fn = "Read" /\ h.cmds # <<>> /\ h.cmds[Len(h.cmds)] = "info"
    /\ run(h.reply.res) = NilErr
    /\ h.reply.wellFormed
    /\ TheName \notin DOMAIN h.reply.info

\* C8 as stated: when the info query succeeds and the info map has no entry
\* for the name, GetInstance returns ErrNotFound or an error wrapping it, and
\* Read does not report a read failure.
C8_MissingEntryIsNotFound ==
    InfoWithoutEntry
        => /\ errorsIsNotFound(h.err)
           /\ "Failed to read instance" \notin h.errors


(***************************************************************************)
(* Properties of the alias and snapshot Delete (specification SpecDelete)  *)
(***************************************************************************)
\* The command of the handler exited nonzero, inside its deadline, with a
\* stderr that says "does not exist" or "not found".
SaidGone ==
    /\ h.pc = "done"
    /\ ~h.reply.res.ok /\ ~h.reply.res.deadline
    /\ \/ Contains(h.reply.res.stderr, <<"does", "not", "exist">>)
       \/ Contains(h.reply.res.stderr, <<"not", "found">>)

\* C6 as stated: an alias Delete whose unalias command fails because the
\* alias does not exist reports no error diagnostic and removes the resource.
C6_GoneAliasDeleteSucceeds ==
    (h.fn = "AliasDelete" /\ SaidGone)
        => /\ h.errors = {}
           /\ h.removed
           /\ ~tfAlias

\* C7 as stated: a snapshot Delete whose delete command fails with a
\* not-found stderr reports no error diagnostic.
C7_GoneSnapshotDeleteSucceeds ==
    (h.fn = "SnapshotDelete" /\ SaidGone) => h.errors = {}


(***************************************************************************)
(* Properties of instanceResource.Update (specification SpecUpdate)        *)
(***************************************************************************)
\* Update returned without an error diagnostic.
UpdateSucceeded == h.fn = "Update" /\ h.pc = "done" /\ h.errors = {}

\* The mounts a plan declares.
Declared(plan) == {mountConfigToModel(plan.Mounts[i]) : i \in 1 .. Len(plan.Mounts)}

\* The commands of the handler between SetPrimary and the final refresh.
MountCmds == SelectSeq(h.cmds, LAMBDA c : c \in {"umount", "mount"})

\* C9 as stated: after every Update that succeeds the mounts on the instance
\* are exactly the planned mounts, whatever the instance had mounted before.
C9_MountsEqualPlan ==
    UpdateSucceeded => mounted = Declared(h.plan)

\* C9: an Update that succeeds changes mounts exactly when the planned mounts
\* differ from the tracked ones; it then runs one unmount of all mounts
\* followed by one mount per planned entry, and the mounts on the instance
\* are exactly the planned mounts whatever was mounted before; when the
\* planned mounts equal the tracked ones it runs no mount command and the
\* mounts on the instance stay what they were.
C9_RemountWhenPlanDiffers ==
    UpdateSucceeded =>
        IF MountsChanged(h.plan.Mounts, h.prior)
        THEN /\ MountCmds = <<"umount">> \o [i \in 1 .. Len(h.plan.Mounts) |-> "mount"]
             /\ mounted = Declared(h.plan)
        ELSE /\ MountCmds = <<>>
             /\ mounted = h.before

\* An Update with two planned mounts found mounts on the instance that the
\* tracked state did not have and none of which is planned, unmounted them
\* and left exactly the planned mounts.
C9_Witness ==
    /\ UpdateSucceeded
    /\ Len(h.plan.Mounts) = 2
    /\ h.before # {}
    /\ h.before \cap Declared(h.plan) = {}
    /\ h.before # Declared([Mounts |-> h.prior])
    /\ MountCmds = <<"umount", "mount", "mount">>
    /\ mounted = Declared(h.plan)


(***************************************************************************)
(* Properties of diffMounts (specification SpecDiff)                       *)
(***************************************************************************)
\* The entries of a list that mountConfigMap keeps.
DiffEntries(l) == {l[i] : i \in {j \in 1 .. Len(l) : mountKept(l[j])}}

\* The reorderings of a list.
Reorderings(l) ==
    {[i \in 1 .. Len(l) |-> l[q[i]]] :
        q \in {f \in [1 .. Len(l) -> 1 .. Len(l)] :
                  \A i, j \in 1 .. Len(l) : f[i] = f[j] => i = j}}

\* No entry of the set has the (host path, instance path) pair of c.
PairAbsent(c, set) == \A x \in set : PairOf(x) # PairOf(c)

\* C10 as stated: by (host path, instance path) pair, a pair in plan and
\* state with the same read-only flag is in neither result; with different
\* flags the state entry is in toRemove and the plan entry in toAdd; a pair
\* only in plan is only in toAdd; a pair only in state is only in toRemove;
\* and reordering either input list changes neither result set.
C10_DiffByPair ==
    diff.done =>
        LET P == DiffEntries(diff.plan)
            S == DiffEntries(diff.state)
        IN /\ \A c \in P :
                 LET same == {x \in S : PairOf(x) = PairOf(c)}
                 IN IF same = {}
                    THEN c \in diff.toAdd /\ PairAbsent(c, diff.toRemove)
                    ELSE \A x \in same :
                           IF x.ReadOnly = c.ReadOnly
                           THEN PairAbsent(c, diff.toAdd) /\ PairAbsent(c, diff.toRemove)
                           ELSE c \in diff.toAdd /\ x \in diff.toRemove
           /\ \A x \in S :
                 PairAbsent(x, P) => x \in diff.toRemove /\ PairAbsent(x, diff.toAdd)
           /\ \A pl \in Reorderings(diff.plan), st \in Reorderings(diff.state) :
                 /\ diffMounts(pl, st).toAdd = diff.toAdd
                 /\ diffMounts(pl, st).toRemove = diff.toRemove


(***************************************************************************)
(* Properties of the instance Create and Delete (specification SpecLife)   *)
(***************************************************************************)
\* a is an initial part of b.
IsPrefix(a, b) == Len(a) <= Len(b) /\ a = SubSeq(b, 1, Len(a))

\* The commands of a Create whose launch ended with the error e.
CreateCmds(e, primary) ==
    IF e # NilErr THEN <<"launch">>
    ELSE IF primary THEN <<"launch", "set", "info">>
    ELSE <<"launch", "info">>

\* C11: a Create issues launch first; after a failed launch it issues nothing
\* more, reports an error and records no state; after a launch that worked it
\* issues set-primary exactly when primary is true, a failure of which is a
\* warning and not an error, and then reads the instance by name; it records
\* tracked state exactly when that read worked, with the state read.
C11_CreateOrder ==
    (h.fn = "Create" /\ h.cmds # <<>>) =>
        /\ IsPrefix(h.cmds, CreateCmds(h.errs[1], h.plan.Primary))
        /\ h.pc = "done" =>
             /\ h.cmds = CreateCmds(h.errs[1], h.plan.Primary)
             /\ "Failed to set primary" \notin h.errors
             /\ (Len(h.cmds) = 3 /\ h.errs[2] # NilErr)
                    => "Failed to set primary" \in h.warnings
             /\ IF h.errs[1] # NilErr
                THEN /\ ~tfInstance.present
                     /\ "Failed to launch instance" \in h.errors
                ELSE IF h.errs[Len(h.errs)] = NilErr
                     THEN /\ h.errors = {}
                          /\ tfInstance.present
                          /\ tfInstance.State = h.inst.State
                          /\ tfInstance.State = vm[TheName]
                     ELSE /\ ~tfInstance.present
                          /\ h.errors = {"Failed to refresh instance state"}

\* A Create with primary set launched the instance, failed to set it primary,
\* read it and recorded its state with a warning only.
C11_Witness ==
    /\ h.fn = "Create" /\ h.pc = "done" /\ h.plan.Primary
    /\ h.cmds = <<"launch", "set", "info">>
    /\ h.errs[1] = NilErr /\ h.errs[2] # NilErr /\ h.errs[3] = NilErr
    /\ h.warnings = {"Failed to set primary"} /\ h.errors = {}
    /\ tfInstance.present /\ tfInstance.State = "Running"


\* C12: an instance Delete issues delete and then purge; purge is issued only
\* after delete worked, and always then; when purge fails Delete reports an
\* error diagnostic, no warning, and the resource stays in the tracked state.
C12_PurgeFailureReported ==
    (h.fn = "Delete" /\ h.cmds # <<>>) =>
        /\ IsPrefix(h.cmds, <<"delete", "purge">>)
        /\ Len(h.cmds) = 2 => h.errs[1] = NilErr
        /\ h.pc = "done" =>
             /\ h.errs[1] = NilErr => Len(h.cmds) = 2
             /\ (Len(h.cmds) = 2 /\ h.errs[2] # NilErr)
                    => /\ "Failed to delete instance" \in h.errors
                       /\ h.warnings = {}
                       /\ ~h.removed
                       /\ tfInstance.present

\* A Delete soft-deleted the instance, failed to purge it and reported the
\* failure as an error.
C12_Witness ==
    /\ h.fn = "Delete" /\ h.pc = "done"
    /\ h.cmds = <<"delete", "purge">>
    /\ h.errs[1] = NilErr /\ h.errs[2] # NilErr
    /\ vm[TheName] = "Deleted"
    /\ h.errors = {"Failed to delete instance"}


(***************************************************************************)
(* Properties of aliasResource.Update (specification SpecAlias)            *)
(***************************************************************************)
AliasUpdateDone == h.fn = "AliasUpdate" /\ h.pc = "done"

\* The external alias is what the plan of the Update says.
AliasAsPlanned ==
    /\ aliasExt
    /\ aliasDef = [Instance |-> h.args[2], Command |-> h.args[3],
                   WorkingDirectory |-> h.args[4]]

SnapshotCreateDone == h.fn = "SnapshotCreate" /\ h.pc = "done"

\* C14 as stated: snapshot Create issues the snapshot command only when the
\* instance is in state Stopped.
C14_IssuedOnlyWhenStopped ==
    (h.fn = "SnapshotCreate" /\ h.cmds # <<>>) => vm[TheName] = "Stopped"

\* C14: snapshot Create with an instance name issues the snapshot command
\* whatever the state of the instance; it succeeds and records the snapshot only when the tool
\* took it, that is only for a stopped instance; for any other state the
\* command fails, Create reports the error "Failed to create snapshot" and
\* neither a snapshot nor tracked state comes to exist.
C14_ToolGuardsStopped ==
    SnapshotCreateDone =>
        /\ h.cmds = IF h.args[1] = "" THEN <<>> ELSE <<"snapshot">>
        /\ IF h.errors = {}
           THEN vm[TheName] = "Stopped" /\ snapshotExt /\ tfSnapshot
           ELSE h.errors = {"Failed to create snapshot"} /\ ~tfSnapshot
        /\ vm[TheName] # "Stopped" => h.errors # {}

\* A Create issued the snapshot command for a running instance, the tool
\* refused, and the Create failed with no snapshot recorded.
C14_Witness ==
    /\ SnapshotCreateDone
    /\ vm[TheName] = "Running"
    /\ h.cmds = <<"snapshot">> /\ h.errs[1] = CLIError
    /\ h.errors = {"Failed to create snapshot"}
    /\ ~snapshotExt /\ ~tfSnapshot


(***************************************************************************)
(* Properties of client.run (specification SpecRun)                        *)
(***************************************************************************)
RunDone == fx.fn = "run" /\ fx.done

\* The stderr of the process says that something does not exist.
StderrSaysGone ==
    \/ Contains(fx.proc.stderr, <<"does", "not", "exist">>)
    \/ Contains(fx.proc.stderr, <<"not", "found">>)

\* C15: every run ends in one outcome, chosen in this order: exit zero gives
\* the captured stdout and no error; otherwise a deadline overrun gives a
\* timeout error that is neither NotFound nor a CLIError; otherwise a stderr
\* with "does not exist" or "not found" gives an error wrapping ErrNotFound;
\* otherwise a CLIError with the joined arguments, the trimmed stdout, the
\* trimmed stderr and the process error.
C15_RunOutcomes ==
    RunDone =>
        LET r == fx.result IN
        IF fx.proc.ok
        THEN r.err = NilErr /\ r.out = fx.proc.stdout
        ELSE /\ r.out = NoBytes
             /\ IF fx.proc.ctxErr = "DeadlineExceeded"
                THEN r.err = TimeoutErr /\ ~errorsIsNotFound(r.err) /\ r.err # CLIError
                ELSE IF StderrSaysGone
                     THEN r.err = WrappedNotFound /\ errorsIsNotFound(r.err)
                     ELSE /\ r.err = CLIError
                          /\ r.detail.Command = JoinArgs(fx.args)
                          /\ r.detail.Stdout = TrimSpace(fx.proc.stdout)
                          /\ r.detail.Stderr = TrimSpace(fx.proc.stderr)
                          /\ r.detail.Err = fx.proc.runErr
                          /\ \A i \in {1, Len(r.detail.Stderr)} \cap DOMAIN r.detail.Stderr :
                                 r.detail.Stderr[i] # " "

\* A process that overran its deadline with a not-found stderr ended in the
\* timeout error.
C15_Witness ==
    /\ RunDone /\ ~fx.proc.ok
    /\ fx.proc.ctxErr = "DeadlineExceeded" /\ StderrSaysGone
    /\ fx.result.err = TimeoutErr

\* C16 as stated: when the caller cancels the context while the command is
\* in flight, run returns an error that is neither a CLIError nor NotFound.
C16_CancelIsNotToolFailure ==
    (RunDone /\ ~fx.proc.ok /\ fx.proc.ctxErr = "Canceled")
        => fx.result.err # CLIError /\ ~errorsIsNotFound(fx.result.err)


(***************************************************************************)
(* Properties of writeDirectoryFromTar (specification SpecTar)             *)
(***************************************************************************)
\* The entry name leaves the destination root: cleaned, it starts with "..".
Escapes(name) == Clean(name) # <<>> /\ Clean(name)[1] = ".."

\* The extraction stopped at an entry whose name escapes the root.
TarRejectedEscape ==
    /\ fx.fn = "tar" /\ fx.done /\ fx.err = "Invalid archive entry"
    /\ Escapes(fx.archive[fx.i].Name)

\* C17 as stated: when an entry of the archive escapes the destination root
\* and the error is reported, no entry of the archive has been written and
\* nothing has been written outside the destination root.
C17_NothingWrittenOnEscape ==
    TarRejectedEscape
        => /\ fx.written = {}
           /\ \A p \in fx.written : Below(p, DestRoot)


(***************************************************************************)
(* Properties of hashDirectory (specification SpecHash)                    *)
(***************************************************************************)
\* C18 as stated: two digests of the same tree are equal whatever the order
\* of enumeration, and the digest taken after one file was rewritten or
\* renamed differs from the one taken before.
C18_DigestTellsTreesApart ==
    (fx.fn = "hash" /\ fx.done)
        => /\ fx.change = "none" => fx.d1 = fx.d2
           /\ fx.change \in {"content", "rename"} => fx.d1 # fx.d2


(***************************************************************************)
(* Properties of the snapshot name reading (specification SpecSnapName)    *)
(***************************************************************************)
\* The text after the last colon of the output, white space around it left
\* out: it runs from a to b, nothing but white space follows it, no colon is
\* in it, and before it come white space and then a colon or the start.
Announced(out) ==
    LET n == Len(out)
        ab == CHOOSE ab \in (1 .. n + 1) \X (0 .. n) :
                /\ ab[2] >= ab[1] - 1
                /\ \A i \in (ab[2] + 1) .. n : out[i] = " "
                /\ \A i \in ab[1] .. ab[2] : out[i] # ":"
                /\ ab[2] >= ab[1] => out[ab[1]] # " " /\ out[ab[2]] # " "
                /\ \E k \in 0 .. (ab[1] - 1) :
                    /\ k # 0 => out[k] = ":"
                    /\ \A i \in (k + 1) .. (ab[1] - 1) : out[i] = " "
    IN SubSeq(out, ab[1], ab[2])

\* The text is "<instance>.<snapshot>" with snapshot y: a dot, no dot before
\* it, and y after it.
NamesSnapshot(u, y) ==
    \E k \in 1 .. Len(u) :
        /\ u[k] = "."
        /\ \A i \in 1 .. (k - 1) : u[i] # "."
        /\ y = SubSeq(u, k + 1, Len(u))

\* C19: the result is the part after the first dot of the text after the last
\* colon when that part is not empty, and the requested name in every other
\* case (empty output, nothing after the colon, no dot, nothing after the dot).
C19_NameAfterFirstDot ==
    (fx.fn = "snapshotName" /\ fx.done)
        => LET u == Announced(fx.out)
           IN IF \E k \in 1 .. (Len(u) - 1) : NamesSnapshot(u, SubSeq(u, k + 1, Len(u)))
              THEN NamesSnapshot(u, fx.result) /\ fx.result # <<>>
              ELSE fx.result = fx.name

\* The output ":a.b" has been read as the name "b".
C19_Witness ==
    /\ fx.fn = "snapshotName" /\ fx.done
    /\ fx.out = <<":", "a", ".", "b">>
    /\ fx.result = <<"b">>


(***************************************************************************)
(* Properties of sanitizeIPs (specification SpecIPs)                       *)
(***************************************************************************)
IPsDone == fx.fn = "sanitizeIPs" /\ fx.done

\* The text is "N/A" in some letter case.
NATexts == {<<"N/A">>, <<"n/a">>, <<"N/a">>, <<"n/A">>}
IsNA(v) == v \in NATexts

\* The text is white space only, or nothing.
IsBlank(v) == \A i \in 1 .. Len(v) : v[i] = " "

\* The text w is v without the white space around it.
Stripped(w, v) ==
    \E i \in 0 .. Len(v), j \in 0 .. Len(v) :
        /\ w = SubSeq(v, i + 1, j)
        /\ IsBlank(SubSeq(v, 1, i)) /\ IsBlank(SubSeq(v, j + 1, Len(v)))
        /\ w = <<>> \/ (w[1] # " " /\ w[Len(w)] # " ")

\* The j-th position, in ascending order, of a set of positions.
Nth(S, j) == CHOOSE i \in S : Cardinality({k \in S : k < i}) = j - 1

\* No address of the model is empty or "N/A".
NoPlaceholder == \A j \in DOMAIN fx.result : ~IsBlank(fx.result[j]) /\ ~IsNA(fx.result[j])

\* C20 as stated: the result is the input entries that are not blank and not
\* "N/A" in any letter case, as they stand in the input and in its order,
\* and the model holds no empty and no "N/A" address.
C20_KeepsInputEntries ==
    IPsDone
        => LET kept == {i \in DOMAIN fx.values :
                            ~IsBlank(fx.values[i]) /\ ~IsNA(fx.values[i])}
           IN /\ Len(fx.result) = Cardinality(kept)
              /\ \A j \in DOMAIN fx.result : fx.result[j] = fx.values[Nth(kept, j)]
              /\ NoPlaceholder

\* C20, amended: the result holds, in the order of the input, the entries
\* without the white space around them, of those entries that without it are
\* neither empty nor "N/A" in any letter case; the model holds no empty and
\* no "N/A" address.
C20_KeepsTrimmedEntries ==
    IPsDone
        => LET kept == {i \in DOMAIN fx.values :
                            /\ ~IsBlank(fx.values[i])
                            /\ ~\E w \in NATexts : Stripped(w, fx.values[i])}
           IN /\ Len(fx.result) = Cardinality(kept)
              /\ \A j \in DOMAIN fx.result :
                    Stripped(fx.result[j], fx.values[Nth(kept, j)])
              /\ NoPlaceholder

\* A padded address and a padded "N/a" have been converted: the address is
\* kept without its padding and the other entry is gone.
C20_Witness ==
    /\ IPsDone
    /\ fx.values = << <<" ", "N/a">>, <<" ", "10.0.0.2">> >>
    /\ fx.result = << <<"10.0.0.2">> >>


(***************************************************************************)
(* Properties of the client under two callers (specification SpecConc)     *)
(***************************************************************************)
\* C21 as stated: a list call with refresh=false that started after a
\* mutation of its kind returned success returns no payload queried before
\* that mutation, and no slot holds such a payload after the invalidation.
C21_NoStaleAfterMutation ==
    /\ \A p \in Callers :
          (ListDone(p) /\ ~op[p].refresh /\ ret[p].err = NilErr)
              => ret[p].value >= hist[p].since
    /\ \A k \in Kinds : cache[k] # NoEntry => cache[k].value >= mutVer[k]

\* The positions of a caller at which an external process runs for it.
External == {"query", "command", "purge"}

\* The positions of a caller between Lock and Unlock.
Locked == {"check", "store", "invalidate"}

\* C23: a caller whose external process is running does not hold the mutex;
\* the holder is checking, storing or clearing a slot.
C23_NoMutexAroundProcess ==
    \A p \in Callers :
        /\ pc[p] \in External => mu # p
        /\ mu = p => pc[p] \in Locked

\* While the list query of one caller is running, the other caller holds
\* the mutex and checks the slot.
C23_Witness ==
    \E p \in Callers, q \in Callers :
        p # q /\ pc[p] = "query" /\ mu = q /\ pc[q] = "check"

\* C24 as stated: two list queries of the same kind are never in flight at
\* the same moment.
C24_SingleFlight ==
    \A p \in Callers, q \in Callers :
        (p # q /\ pc[p] = "query" /\ pc[q] = "query") => op[p].kind # op[q].kind

\* C24, amended: the check, the store and the clearing of a slot exclude one
\* another, each is done by the caller holding the mutex, and the queries
\* themselves run outside of it, so that two of them can be in flight.
C24_SlotAccessExclusive ==
    \A p \in Callers :
        /\ pc[p] \in Locked => mu = p
        /\ pc[p] = "query" => mu # p

\* Two callers missed the same slot and both their queries are in flight.
C24_Witness ==
    \E p \in Callers, q \in Callers :
        /\ p # q /\ pc[p] = "query" /\ pc[q] = "query"
        /\ op[p].kind = op[q].kind
        /\ ~op[p].refresh /\ ~op[q].refresh


(***************************************************************************)
(* Properties of the power operations (specification SpecPower)            *)
(***************************************************************************)
\* C22 as stated: when one of the five power operations has returned success
\* the instances slot is empty, and a following ListInstances with
\* refresh=false returns no payload cached before the operation.
C22_PowerOpInvalidates ==
    \A p \in Callers :
        /\ (pc[p] = "done" /\ op[p].fn \in PowerOps /\ ret[p].err = NilErr)
               => cache["instanceCache"] = NoEntry
        /\ (ListDone(p) /\ ~op[p].refresh /\ ret[p].err = NilErr
                /\ op[p].kind = "instanceCache")
               => ret[p].value >= hist[p].since


(***************************************************************************)
(* Properties of the clone functions (specification SpecClone)             *)
(***************************************************************************)
\* C25 as stated: whatever the caller wrote to the list it was given, to its
\* elements or to the slices of its elements, a later cache hit returns what
\* the cache was given.
C25_CacheUnchangedByCaller ==
    (fx.fn = "clone" /\ fx.done) => Seen(fx, "later") = fx.orig


(***************************************************************************)
(* Properties of the commands of one Read (specification SpecReadRace)     *)
(***************************************************************************)
\* The step issues the external command c.
Issues(c) == Len(h'.cmds) = Len(h.cmds) + 1 /\ h'.cmds[Len(h'.cmds)] = c

RecoverFailed ==
    h.warnings \cap {"Failed to auto-recover instance",
                     "Failed to auto-recover soft-deleted instance"} # {}

StartFailed == "Failed to auto-start instance after recover" \in h.warnings

\* C26 as stated: a Read issues, besides info, only recover and start;
\* recover only with auto_recover set and the instance found absent or in
\* state Deleted; start only with auto_start_on_recover set, after a recover
\* that succeeded and a fetch of an instance that is not Running; and no
\* command that failed is issued again.
C26_ReadCommands ==
    [][h'.fn = "Read" =>
        /\ \A c \in {"recover", "start"} \cup {"launch", "delete", "purge", "stop"} :
              Issues(c) => c \in {"recover", "start"}
        /\ Issues("recover") =>
              /\ tfInstance.AutoRecover
              /\ \/ h.err = ErrNotFound
                 \/ h.err = NilErr /\ EqualFold(h.inst.State, "Deleted")
              /\ ~RecoverFailed
        /\ Issues("start") =>
              /\ tfInstance.AutoStartOnRecover
              /\ Len(h.cmds) >= 2
              /\ h.cmds[Len(h.cmds) - 1] = "recover" /\ h.cmds[Len(h.cmds)] = "info"
              /\ h.err = NilErr /\ ~EqualFold(h.inst.State, "Running")
              /\ ~StartFailed]_vars


(***************************************************************************)
(* Properties of instance Create and Delete (SpecLife, SpecPurge)          *)
(***************************************************************************)
\* Create returned after its launch command had succeeded.
CreateLaunched ==
    /\ h.fn = "Create" /\ h.pc = "done"
    /\ h.cmds # <<>> /\ h.cmds[1] = "launch" /\ h.errs[1] = NilErr

\* C27 as stated: when Create returns after a successful launch the
\* resource is in the tracked state, also when the read that follows the
\* launch failed.
C27_LaunchedIsTracked == CreateLaunched => tfInstance.present

\* C28 as stated: no step of the Delete of one instance changes the state
\* the tool holds of another instance.
C28_DeleteTouchesOneInstance ==
    [][(h.fn = "Delete" /\ OtherName \in DOMAIN vm) => vm'[OtherName] = vm[OtherName]]_vars


(***************************************************************************)
(* Properties of the archive download (specification SpecDownload)         *)
(***************************************************************************)
\* C29 as stated: when the download has returned, every command that creates
\* the remote archive is followed by a removal command for the same path,
\* whatever the archive creation, the transfer and the extraction did.
C29_ArchiveAlwaysRemoved ==
    (fx.fn = "download" /\ fx.done)
        => \A i \in DOMAIN fx.cmds :
              fx.cmds[i].cmd = "tar"
                  => \E j \in DOMAIN fx.cmds :
                        j > i /\ fx.cmds[j] = removeCmd(fx.cmds[i].path)


(***************************************************************************)
(* Properties of the local validation (specification SpecValid)            *)
(***************************************************************************)
\* The calls the validation is to refuse: an operation and its arguments.
EmptyArgument(o) ==
    \/ o.fn = "CreateAlias" /\ \E i \in 1 .. 3 : o.args[i] = ""
    \/ o.fn = "DeleteAlias" /\ o.args[1] = ""
    \/ o.fn = "SetPrimary" /\ o.args[1] = ""
    \/ o.fn = "CreateSnapshot" /\ o.args[1] = ""
    \/ o.fn = "DeleteSnapshot" /\ \E i \in 1 .. 2 : o.args[i] = ""

\* Caller p makes a call in this step.
Calls(p) ==
    /\ Free(p)
    /\ <<pc[p], op[p], ret[p], hist[p]>>' # <<pc[p], op[p], ret[p], hist[p]>>

\* C30: a call of CreateAlias with an empty name, instance or command, of
\* DeleteAlias or SetPrimary with an empty name, of CreateSnapshot with an
\* empty instance, or of DeleteSnapshot with an empty instance or name
\* returns an error in the step of the call, without an external command
\* having run, and leaves every cache slot and the tool's state unchanged.
C30_ValidationBeforeExternalCall ==
    [][\A p \in Callers :
          (Calls(p) /\ EmptyArgument(op'[p]))
              => /\ pc'[p] = "done"
                 /\ ret'[p].err = ValidationErr
                 /\ hist'[p].ran = 0
                 /\ cache' = cache
                 /\ ext' = ext]_vars

\* With an unexpired alias list in the cache, a CreateAlias with an empty
\* instance has returned the validation error and the entry is still there.
C30_Witness ==
    /\ pc[1] = "done" /\ op[1].fn = "CreateAlias" /\ op[1].args[2] = ""
    /\ ret[1].err = ValidationErr /\ hist[1].ran = 0
    /\ cache["aliasCache"] # NoEntry

====
